---- MODULE Spec2Model ----
(***************************************************************************)
(* A model of validation_np_hard/np_benchmarks.py: the four solvers        *)
(* (3-SAT brute force, 2-opt over a nearest-neighbour tour, bounded vertex *)
(* cover, 0/1 knapsack DP) as operators and step machines, and the         *)
(* orchestrator run_np_benchmarks with its polled wall-clock budget; and   *)
(* of StatefulPLM of Code_core_3/plm-formalized with its update functions. *)
(*                                                                         *)
(* Python's Optional is modelled as a sequence of length 0 (None) or 1.    *)
(* Python lists are sequences; index i of the code is index i+1 here.      *)
(***************************************************************************)
EXTENDS Integers, Sequences, FiniteSets, TLC

VARIABLES
    pc,         \* position of the program that the specification runs
    cnf,        \* solve_3sat_bruteforce: the CNF
    n_vars,     \* solve_3sat_bruteforce: number of variables
    max_nodes,  \* solve_3sat_bruteforce: Optional node cap
    sat_sol,    \* solve_3sat_bruteforce: Optional returned assignment
    toy_pos,    \* check_toy_3sat_bruteforce: triples (a, b, c) enumerated so far
    toy_satisfying, \* check_toy_3sat_bruteforce: satisfying, as triples <<a, b, c>>
    toy_witness,    \* check_toy_3sat_bruteforce: Optional witness
    gen_n_clauses,  \* generate_random_3sat: the argument n_clauses
    gen_count,  \* generate_random_3sat: len(cnf), the clauses appended so far
    gen_clause, \* generate_random_3sat: Optional clause appended last
    items,      \* solve_knapsack_dp: the items <<weight, value>>
    capacity,   \* solve_knapsack_dp: the capacity
    ks_out,     \* solve_knapsack_dp: Optional returned [best, picked]
    items2,     \* solve_knapsack_dp, second call: the same items in another order
    ks_out2,    \* solve_knapsack_dp, second call: Optional returned [best, picked]
    edges,      \* solve_vertex_cover_bruteforce: the edge list
    vc_n,       \* solve_vertex_cover_bruteforce: number of vertices
    vc_k,       \* solve_vertex_cover_bruteforce: the size budget k
    vc_sol,     \* solve_vertex_cover_bruteforce: Optional returned cover
    points,     \* TSP: the points <<x, y>>
    tour,       \* TSP: the tour, improved in place by tsp_2opt
    tour_in,    \* TSP: the tour as handed to tsp_2opt
    base_len,   \* TSP: base_len = tsp_tour_length(pts, tour) before tsp_2opt
    max_swaps,  \* tsp_2opt: the swap ceiling
    swaps,      \* tsp_2opt: swaps applied
    improved,   \* tsp_2opt: the flag of the current pass
    ti,         \* tsp_2opt: loop variable i
    tk,         \* tsp_2opt: loop variable k
    acc,        \* tsp_nearest_neighbor_accel: acc = _detect_accelerators(), the cuda flags
    nn_start,   \* tsp_nearest_neighbor_accel: the argument start
    acc_tour,   \* tsp_nearest_neighbor_accel: the tour a backend is building
    acc_meta,   \* tsp_nearest_neighbor_accel: meta["backend"]
    acc_tried,  \* the backends whose try block was entered, in that order
    acc_out,    \* tsp_nearest_neighbor_accel: Optional returned tour
    acc_used_gpu,   \* tsp_nearest_neighbor_accel: meta["used_gpu"]
    acc_error,  \* tsp_nearest_neighbor_accel: Optional meta["error"]
    acc_raised, \* the exceptions the try blocks raised: <<backend, str(exc)>>, in order
    acc_by,     \* the code path that built the returned list
    plm_state,  \* StatefulPLM: self._state, a PLMState [t, inputs]
    plm_update, \* StatefulPLM: self._update_fn, an update strategy and its delta
    plm_observer,   \* StatefulPLM: whether self._observer is not None
    plm_s,      \* StatefulPLM.step: Optional s, the value computed by the call
    plm_observed,   \* the calls the observer has received, as <<state, s>>
    plm_init,   \* StatefulPLM: the initial_state it was constructed with
    plm_steps,  \* calls of step() begun
    minutes,    \* cfg.minutes, in 1 / MinutesDenom of a minute
    per_problem_max_seconds,    \* cfg.per_problem_max_seconds: Optional ticks
    now,        \* the monotonic clock time.perf_counter(), in ticks of 0.25 s
    start,      \* run_np_benchmarks: start = _now()
    budget,     \* run_np_benchmarks: budget = _deadline_seconds(cfg)
    t_start,    \* sat_start, tsp_start, vc_start, ks_start: track name -> time
    t_budget,   \* sat_budget, tsp_budget, vc_budget, ks_budget: track name -> ticks
    local_left, \* the loop test's reading of _time_left(<track>_start, <track>_budget)
    global_left,    \* the loop test's reading of _time_left(start, budget)
    best_sat,   \* 3-SAT track: best_sat
    vc_best,    \* vertex-cover track: vc_best
    problems,   \* results["problems"]: track name -> entry
    completed,  \* results["completed"] (False while the key is absent)
    seconds_total,  \* results["seconds_total"]
    generated,  \* track name -> instances drawn from the generator
    invoked,    \* track name -> iterations that called the track's solver
    order,      \* the tracks whose section has begun, in that order
    seed,       \* cfg.seed
    rng,        \* run_np_benchmarks: Optional rng, the generator's state
    calls,      \* the instances drawn from rng so far, in call order
    earlier_run \* Optional outcome of an earlier run_np_benchmarks(cfg) with the same cfg

toyVars == <<toy_pos, toy_satisfying, toy_witness>>
genVars == <<gen_n_clauses, gen_count, gen_clause>>
satVars == <<cnf, n_vars, max_nodes, sat_sol, toyVars, genVars>>
ksVars == <<items, capacity, ks_out, items2, ks_out2>>
vcVars == <<edges, vc_n, vc_k, vc_sol>>
tspVars == <<points, tour, tour_in, base_len, max_swaps, swaps, improved, ti, tk>>
accMeta == <<acc_used_gpu, acc_error, acc_raised, acc_by>>
accVars == <<acc, nn_start, acc_tour, acc_meta, acc_tried, acc_out, accMeta>>
plmVars ==
    <<plm_state, plm_update, plm_observer, plm_s, plm_observed, plm_init, plm_steps>>
runVars ==
    <<minutes, per_problem_max_seconds, now, start, budget, t_start, t_budget,
      local_left, global_left, best_sat, vc_best, problems, completed,
      seconds_total, generated, invoked, order, seed, rng, calls>>
rngVars == <<seed, rng, calls>>
pairVars == <<earlier_run>>
vars == <<pc, satVars, ksVars, vcVars, tspVars, accVars, plmVars, pairVars, runVars>>

\* ------------------------------------------------------------------ bounds
MaxVars == 2        \* most variables of a drawn CNF
MaxClauses == 2     \* most clauses of a drawn CNF
MaxGenVars == 4     \* most variables for which every sample of three is followed
MaxNodes == 3       \* largest explicit node cap drawn (besides the track's cap)
MaxItems == 3       \* most items of a drawn knapsack instance
MaxW == 2           \* largest item weight drawn
MaxV == 3           \* largest item value drawn
MaxCap == 4         \* largest knapsack capacity drawn
MaxVerts == 4       \* most vertices of a drawn graph
MaxK == 3           \* largest cover budget k drawn
MaxPts == 4         \* most points of a drawn TSP instance
MaxPos == 4         \* the points are drawn among grid positions 0 .. MaxPos
GridWidth == 2      \* position p lies at <<p % GridWidth, p \div GridWidth>>
Scale == 10         \* distances are kept to 1 / Scale of a grid step
Scale32 == 1        \* float32 distances are kept to 1 / Scale32 of a grid step
SmallMaxSwaps == 1  \* the small swap ceiling drawn (besides the track's 1000)
MaxMinutes == 5     \* largest cfg.minutes drawn (in sixtieths of a minute)
MaxPerProblem == 3  \* largest cfg.per_problem_max_seconds drawn (in ticks)
MaxStep == 2        \* most ticks that pass between two reads of the clock
MaxClock == 8       \* the clock is followed up to this many ticks
MaxAttempts == 2    \* most iterations followed in one scaling loop
MaxSteps == 3       \* most calls of StatefulPLM.step() followed
MaxSatDraws == 5    \* most 3-SAT draws followed in one of a pair of runs

\* -------------------------------------------------------- program constants
CapBits == 22       \* max_nodes = 1 << min(n, 22)
TrackMaxSwaps == 1000   \* tsp_2opt(pts, tour, max_swaps=1000)
GainEps == 0        \* gain > 1e-12: below one unit of the fixed-point distance
MinutesDenom == 60  \* cfg.minutes is a float: held in sixtieths of a minute
OneSecond == 4      \* 1.0 second, in ticks of 0.25 s
GuardTicks == 1     \* the guard threshold 0.25 s, in ticks
SatStartN == 12     \* n = 12
TspN == 200         \* tsp_n = 200
VcStartN == 22      \* vc_n = 22
VcMaxK == 10        \* range(0, min(vc_n, 10) + 1)
KsN == 300          \* ks_n = 300
KsCapacity == 2000  \* capacity = 2000
DefaultSeed == 1337 \* seed: int = 1337

\* ----------------------------------------------------------------- helpers
None == <<>>
Some(x) == <<x>>

Min(a, b) == IF a <= b THEN a ELSE b
Max(a, b) == IF a >= b THEN a ELSE b

RECURSIVE Pow2(_)
Pow2(k) == IF k <= 0 THEN 1 ELSE 2 * Pow2(k - 1)

\* ------------------------------------------------------------------- 3-SAT
\* A literal is <<var_idx, is_negated>>, a clause three literals.
Literals(n) == (0 .. (n - 1)) \X BOOLEAN

LitCode(l) == 2 * l[1] + (IF l[2] THEN 1 ELSE 0)

ClauseCode(c) == (LitCode(c[1]) * 64 + LitCode(c[2]) * 8) + LitCode(c[3])

\* The clauses drawn: three literals over n variables (a variable may repeat:
\* the solver accepts any clause), listed once per multiset of literals.
Clauses(n) ==
    { c \in Literals(n) \X Literals(n) \X Literals(n) :
        LitCode(c[1]) <= LitCode(c[2]) /\ LitCode(c[2]) <= LitCode(c[3]) }

\* The CNFs drawn: at most MaxClauses distinct clauses, in ascending order.
CNFs(n) ==
    UNION { { s \in [1 .. m -> Clauses(n)] :
                \A i \in 1 .. (m - 1) : ClauseCode(s[i]) < ClauseCode(s[i + 1]) }
            : m \in 0 .. MaxClauses }

\* Mutant: variable i is read from bit n_vars - 1 - i of the mask.
MaskBitsMsbFirst(mask, n) == [i \in 1 .. n |-> ((mask \div Pow2(n - i)) % 2) = 1]

\* bits = [(mask >> i) & 1 == 1 for i in range(n_vars)]
MaskBits(mask, n) == [i \in 1 .. n |-> ((mask \div Pow2(i - 1)) % 2) = 1]

RECURSIVE sat_eval_clause_from(_, _, _)
sat_eval_clause_from(bits, clause, j) ==
    IF j > Len(clause) THEN FALSE
    ELSE LET var == clause[j][1]
             neg == clause[j][2]
             val == IF neg THEN ~bits[var + 1] ELSE bits[var + 1]
         IN  IF val THEN TRUE ELSE sat_eval_clause_from(bits, clause, j + 1)

sat_eval_clause(bits, clause) == sat_eval_clause_from(bits, clause, 1)

sat_eval_cnf(bits, cnfv) ==
    \A j \in 1 .. Len(cnfv) : sat_eval_clause(bits, cnfv[j])

\* The loop of solve_3sat_bruteforce from `mask` on, `nodes` masks explored.
RECURSIVE sat_loop(_, _, _, _, _)
sat_loop(cnfv, n, cap, mask, nodes) ==
    IF mask >= Pow2(n) THEN None
    ELSE IF cap # None /\ nodes >= cap[1] THEN None
    ELSE LET bits == MaskBits(mask, n)
         IN  IF sat_eval_cnf(bits, cnfv) THEN Some(bits)
             ELSE sat_loop(cnfv, n, cap, mask + 1, nodes + 1)

\* Mutant: the cap test lets one mask too many through (nodes > max_nodes).
RECURSIVE sat_loop_late_cap(_, _, _, _, _)
sat_loop_late_cap(cnfv, n, cap, mask, nodes) ==
    IF mask >= Pow2(n) THEN None
    ELSE IF cap # None /\ nodes > cap[1] THEN None
    ELSE LET bits == MaskBits(mask, n)
         IN  IF sat_eval_cnf(bits, cnfv) THEN Some(bits)
             ELSE sat_loop_late_cap(cnfv, n, cap, mask + 1, nodes + 1)

solve_3sat_bruteforce_late_cap(cnfv, n, cap) == sat_loop_late_cap(cnfv, n, cap, 0, 0)

solve_3sat_bruteforce(cnfv, n, cap) == sat_loop(cnfv, n, cap, 0, 0)

\* max_nodes = 1 << min(n, 22)
TrackMaxNodes(n) == Pow2(Min(n, CapBits))

\* ---------------------------------------------------------------- knapsack
\* One item's pass over the value table, for c in range(capacity, w - 1, -1):
\* st = [dp, keep] with keep the item's row of the keep table.
RECURSIVE ks_pass_down(_, _, _, _)
ks_pass_down(st, w, v, c) ==
    IF c < w THEN st
    ELSE LET cand == st.dp[c - w] + v
         IN  ks_pass_down(
                 IF cand > st.dp[c]
                 THEN [dp |-> [st.dp EXCEPT ![c] = cand],
                       keep |-> [st.keep EXCEPT ![c] = TRUE]]
                 ELSE st,
                 w, v, c - 1)

\* Mutant: the pass runs from low capacity to high, so an item is reused.
RECURSIVE ks_pass_up(_, _, _, _, _)
ks_pass_up(st, w, v, c, cap) ==
    IF c > cap THEN st
    ELSE LET cand == st.dp[c - w] + v
         IN  ks_pass_up(
                 IF cand > st.dp[c]
                 THEN [dp |-> [st.dp EXCEPT ![c] = cand],
                       keep |-> [st.keep EXCEPT ![c] = TRUE]]
                 ELSE st,
                 w, v, c + 1, cap)

ks_item_pass_ascending(dp, w, v, cap) ==
    ks_pass_up([dp |-> dp, keep |-> [c \in 0 .. cap |-> FALSE]], w, v, w, cap)

\* Mutant: an entry of the value table is written only while it is still 0.
RECURSIVE ks_pass_first_fit(_, _, _, _)
ks_pass_first_fit(st, w, v, c) ==
    IF c < w THEN st
    ELSE LET cand == st.dp[c - w] + v
         IN  ks_pass_first_fit(
                 IF st.dp[c] = 0
                 THEN [dp |-> [st.dp EXCEPT ![c] = cand],
                       keep |-> [st.keep EXCEPT ![c] = TRUE]]
                 ELSE st,
                 w, v, c - 1)

ks_item_pass_first_fit(dp, w, v, cap) ==
    ks_pass_first_fit([dp |-> dp, keep |-> [c \in 0 .. cap |-> FALSE]], w, v, cap)

ks_item_pass(dp, w, v, cap) ==
    ks_pass_down([dp |-> dp, keep |-> [c \in 0 .. cap |-> FALSE]], w, v, cap)

\* for i, (w, v) in enumerate(items): the tables after items i..n.
RECURSIVE ks_fill(_, _, _, _, _)
ks_fill(its, cap, i, dp, keep) ==
    IF i > Len(its) THEN [dp |-> dp, keep |-> keep]
    ELSE LET st == ks_item_pass(dp, its[i][1], its[i][2], cap)
         IN  ks_fill(its, cap, i + 1, st.dp, Append(keep, st.keep))

\* best_c = max(range(capacity + 1), key=lambda c: dp[c]): the first maximum.
\* Mutant: best_c is the largest capacity attaining the maximum.
ks_best_c_last(dp, cap) ==
    CHOOSE c \in 0 .. cap :
        /\ \A d \in 0 .. cap : dp[d] <= dp[c]
        /\ \A d \in (c + 1) .. cap : dp[d] < dp[c]

ks_best_c(dp, cap) ==
    CHOOSE c \in 0 .. cap :
        /\ \A d \in 0 .. cap : dp[d] <= dp[c]
        /\ \A d \in 0 .. (c - 1) : dp[d] < dp[c]

\* Mutant: the walk back stays at best_c (c -= items[i][0] is left out).
RECURSIVE ks_reconstruct_same_c(_, _, _, _)
ks_reconstruct_same_c(its, keep, i, c) ==
    IF i < 1 THEN <<>>
    ELSE IF keep[i][c]
         THEN Append(ks_reconstruct_same_c(its, keep, i - 1, c), i - 1)
         ELSE ks_reconstruct_same_c(its, keep, i - 1, c)

\* for i in range(n - 1, -1, -1): ...; picked.reverse()
RECURSIVE ks_reconstruct(_, _, _, _)
ks_reconstruct(its, keep, i, c) ==
    IF i < 1 THEN <<>>
    ELSE IF keep[i][c]
         THEN Append(ks_reconstruct(its, keep, i - 1, c - its[i][1]), i - 1)
         ELSE ks_reconstruct(its, keep, i - 1, c)

\* The value of c when the loop of lines 337-341 ends.
RECURSIVE ks_walk_c(_, _, _, _)
ks_walk_c(its, keep, i, c) ==
    IF i < 1 THEN c
    ELSE IF keep[i][c]
         THEN ks_walk_c(its, keep, i - 1, c - its[i][1])
         ELSE ks_walk_c(its, keep, i - 1, c)

solve_knapsack_dp(its, cap) ==
    LET t == ks_fill(its, cap, 1, [c \in 0 .. cap |-> 0], <<>>)
        best_c == ks_best_c(t.dp, cap)
    IN  [best |-> t.dp[best_c],
         picked |-> ks_reconstruct(its, t.keep, Len(its), best_c)]

\* ------------------------------------------------------------ vertex cover
\* for u, v in edges: if not (cover[u] or cover[v]): return False
covers_all(es, cover) ==
    \A j \in 1 .. Len(es) : cover[es[j][1] + 1] \/ cover[es[j][2] + 1]

\* Mutant: the pruning test lets a set of k + 1 vertices through.
vc_prune_loose(chosen, k) == Len(chosen) > k + 1

\* Mutant: the pruning test discards the sets of exactly k vertices.
vc_prune_eager(chosen, k) == Len(chosen) >= k

\* if len(chosen) > k: return None
vc_prune(chosen, k) == Len(chosen) > k

RECURSIVE vc_rec(_, _, _, _, _)
vc_rec(es, n, k, first, chosen) ==
    IF vc_prune(chosen, k) THEN None
    ELSE IF first = n
    THEN LET cover == [i \in 1 .. n |-> \E j \in 1 .. Len(chosen) : chosen[j] = i - 1]
         IN  IF covers_all(es, cover) THEN Some(cover) ELSE None
    ELSE LET out == vc_rec(es, n, k, first + 1, chosen)
         IN  IF out # None THEN out
             ELSE vc_rec(es, n, k, first + 1, Append(chosen, first))

solve_vertex_cover_bruteforce(es, n, k) == vc_rec(es, n, k, 0, <<>>)

\* The edge lists drawn, as generate_random_graph_edges builds them: pairs
\* (u, v) with u < v, each at most once, in the order of the two loops.
PairCode(e) == e[1] * (MaxVerts + 2) + e[2]

RECURSIVE PairSeq(_)
PairSeq(S) ==
    IF S = {} THEN <<>>
    ELSE LET m == CHOOSE e \in S : \A f \in S : PairCode(e) <= PairCode(f)
         IN  <<m>> \o PairSeq(S \ {m})

EdgeLists(n) ==
    { PairSeq(S) : S \in SUBSET { e \in (0 .. (n - 1)) \X (0 .. (n - 1)) : e[1] < e[2] } }

\* --------------------------------------------------------------------- TSP
\* math.hypot in fixed point: the distance in units of 1 / Scale, rounded
\* down (the root lies between Scale * max(|dx|, |dy|) and Scale * (|dx| + |dy|)).
Abs(x) == IF x < 0 THEN -x ELSE x

dist(a, b) ==
    LET dx == Abs(a[1] - b[1])
        dy == Abs(a[2] - b[2])
        sq == Scale * Scale * (dx * dx + dy * dy)
    IN  CHOOSE r \in (Scale * Max(dx, dy)) .. (Scale * (dx + dy)) :
            r * r <= sq /\ (r + 1) * (r + 1) > sq

\* for i in range(len(tour)): j = (i + 1) % len(tour); total += _dist(...)
RECURSIVE tour_length_from(_, _, _)
tour_length_from(pts, t, i) ==
    IF i >= Len(t) THEN 0
    ELSE dist(pts[t[i + 1] + 1], pts[t[((i + 1) % Len(t)) + 1] + 1])
            + tour_length_from(pts, t, i + 1)

tsp_tour_length(pts, t) == tour_length_from(pts, t, 0)

\* Mutant: among equally near points the highest index is taken.
RECURSIVE nn_extend_last_tie(_, _, _)
nn_extend_last_tie(pts, t, unvisited) ==
    IF unvisited = {} THEN t
    ELSE LET last == t[Len(t)]
             nxt == CHOOSE j \in unvisited :
                        /\ \A h \in unvisited :
                               dist(pts[last + 1], pts[j + 1]) <= dist(pts[last + 1], pts[h + 1])
                        /\ \A h \in unvisited :
                               h > j => dist(pts[last + 1], pts[h + 1]) > dist(pts[last + 1], pts[j + 1])
         IN  nn_extend_last_tie(pts, Append(t, nxt), unvisited \ {nxt})

\* nxt = min(unvisited, key=...): the set of small ints is walked in
\* ascending order, and min keeps the first of the nearest.
RECURSIVE nn_extend(_, _, _)
nn_extend(pts, t, unvisited) ==
    IF unvisited = {} THEN t
    ELSE LET last == t[Len(t)]
             nxt == CHOOSE j \in unvisited :
                        /\ \A h \in unvisited :
                               dist(pts[last + 1], pts[j + 1]) <= dist(pts[last + 1], pts[h + 1])
                        /\ \A h \in unvisited :
                               h < j => dist(pts[last + 1], pts[h + 1]) > dist(pts[last + 1], pts[j + 1])
         IN  nn_extend(pts, Append(t, nxt), unvisited \ {nxt})

tsp_nearest_neighbor(pts, first) ==
    nn_extend(pts, <<first>>, (0 .. (Len(pts) - 1)) \ {first})

\* gain(i, k) of tsp_2opt, on tour t of n entries.
gain(pts, t, i, k) ==
    LET n == Len(t)
        a == t[i + 1]
        b == t[((i + 1) % n) + 1]
        c == t[k + 1]
        d == t[((k + 1) % n) + 1]
    IN  (dist(pts[a + 1], pts[b + 1]) + dist(pts[c + 1], pts[d + 1]))
          - (dist(pts[a + 1], pts[c + 1]) + dist(pts[b + 1], pts[d + 1]))

\* Mutant: the reversed slice starts one position early (tour[i : k + 1]).
reverse_segment_early(t, i, k) ==
    [p \in 1 .. Len(t) |-> IF p >= i + 1 /\ p <= k + 1 THEN t[(i + 1) + (k + 1) - p] ELSE t[p]]

\* Mutant: the slice is filled from the slice one position earlier
\* (reversed(tour[i : k])).
reverse_segment_overlap(t, i, k) ==
    [p \in 1 .. Len(t) |-> IF p >= i + 2 /\ p <= k + 1 THEN t[(i + 1) + (k + 1) - p] ELSE t[p]]

\* tour[i + 1 : k + 1] = reversed(tour[i + 1 : k + 1])
reverse_segment(t, i, k) ==
    [p \in 1 .. Len(t) |-> IF p >= i + 2 /\ p <= k + 1 THEN t[(i + 2) + (k + 1) - p] ELSE t[p]]

\* Mutant: the inner range stops before the closing edge for every i.
k_limit_no_closing(n, i) == n - 1

\* range(i + 2, n - (0 if i > 0 else 1)) is 2 .. k_limit(n, i) - 1
k_limit(n, i) == n - (IF i > 0 THEN 0 ELSE 1)

\* The next pair (i, k) of the two for loops after (i, k), or <<>> when the
\* pass is over: k + 1 if the inner range goes on, else the next i of
\* range(n - 1) (an i whose inner range is empty is passed over).
RECURSIVE next_pair_from_i(_, _)
next_pair_from_i(n, i) ==
    IF i >= n - 1 THEN None
    ELSE IF i + 2 < k_limit(n, i) THEN Some(<<i, i + 2>>)
    ELSE next_pair_from_i(n, i + 1)

next_pair(n, i, k) ==
    IF k + 1 < k_limit(n, i) THEN Some(<<i, k + 1>>) ELSE next_pair_from_i(n, i + 1)

\* ------------------------------------------------ variables a run leaves alone
ToyIdle == toy_pos = 0 /\ toy_satisfying = <<>> /\ toy_witness = None
GenIdle == gen_n_clauses = 0 /\ gen_count = 0 /\ gen_clause = None
SatIdle ==
    /\ cnf = <<>> /\ n_vars = 0 /\ max_nodes = None /\ sat_sol = None /\ ToyIdle /\ GenIdle
KsIdle ==
    /\ items = <<>> /\ capacity = 0 /\ ks_out = None /\ items2 = <<>> /\ ks_out2 = None
VcIdle == edges = <<>> /\ vc_n = 0 /\ vc_k = 0 /\ vc_sol = None
TspIdle ==
    /\ points = <<>> /\ tour = <<>> /\ tour_in = <<>> /\ base_len = 0
    /\ max_swaps = 0 /\ swaps = 0 /\ improved = FALSE /\ ti = 0 /\ tk = 0
AccIdle ==
    /\ acc = <<>> /\ nn_start = 0 /\ acc_tour = <<>> /\ acc_meta = "cpu"
    /\ acc_tried = <<>> /\ acc_out = None
    /\ acc_used_gpu = FALSE /\ acc_error = None /\ acc_raised = <<>> /\ acc_by = "none"
PlmIdle ==
    /\ plm_state = <<>> /\ plm_update = <<>> /\ plm_observer = FALSE /\ plm_s = None
    /\ plm_observed = <<>> /\ plm_init = <<>> /\ plm_steps = 0
PairIdle == earlier_run = None
RunIdle ==
    /\ minutes = 0 /\ per_problem_max_seconds = None /\ now = 0 /\ start = 0
    /\ budget = 0 /\ t_start = <<>> /\ t_budget = <<>> /\ local_left = 0 /\ global_left = 0
    /\ best_sat = None /\ vc_best = None /\ problems = <<>> /\ completed = FALSE
    /\ seconds_total = 0 /\ generated = <<>> /\ invoked = <<>> /\ order = <<>>
    /\ seed = 0 /\ rng = None /\ calls = <<>>

\* --------------------------------------------- specification: 3-SAT solver
\* The CNF of check_toy_3sat_bruteforce, C1 = (x0 v x1 v x2) and
\* C2 = (-x0 v x1 v -x2), as a CNF of literals (var_idx, is_negated).
ToyVars == 3
ToyCNF ==
    << << <<0, FALSE>>, <<1, FALSE>>, <<2, FALSE>> >>,
       << <<0, TRUE>>, <<1, FALSE>>, <<2, TRUE>> >> >>

\* Mutant: the triples are enumerated with c outermost and a innermost.
toy_bits_lsb_first(e) == << e % 2, (e \div 2) % 2, e \div 4 >>

\* for a in (0, 1): for b in (0, 1): for c in (0, 1): bits = (a, b, c),
\* the e-th triple of the three loops (e = 0 .. 7).
toy_bits(e) == << e \div 4, (e \div 2) % 2, e % 2 >>

\* def sat(bits): x0, x1, x2 = (b == 1 for b in bits); c1 and c2
toy_sat(bits) ==
    LET x0 == bits[1] = 1
        x1 == bits[2] = 1
        x2 == bits[3] = 1
        c1 == x0 \/ x1 \/ x2
        c2 == (~x0) \/ x1 \/ (~x2)
    IN  c1 /\ c2

\* The caps drawn for a CNF of n variables.
Caps(n) == {None} \cup { Some(c) : c \in (0 .. MaxNodes) \cup {TrackMaxNodes(n)} }

InitSat ==
    /\ pc = "sat_call"
    /\ \/ n_vars \in 0 .. MaxVars /\ cnf \in CNFs(n_vars)
       \/ n_vars = ToyVars /\ cnf = ToyCNF
    /\ max_nodes \in Caps(n_vars)
    /\ sat_sol = None
    /\ ToyIdle /\ GenIdle
    /\ KsIdle /\ VcIdle /\ TspIdle /\ AccIdle /\ PlmIdle /\ PairIdle /\ RunIdle

CallSolve3Sat ==
    /\ pc = "sat_call"
    /\ sat_sol' = solve_3sat_bruteforce(cnf, n_vars, max_nodes)
    /\ pc' = "sat_ret"
    /\ UNCHANGED <<cnf, n_vars, max_nodes, toyVars, genVars, ksVars, vcVars, tspVars, accVars, plmVars, pairVars,
                   runVars>>

\* One round of the innermost loop of check_toy_3sat_bruteforce, run next
\* to the solver on the same formula: if sat(bits), append the triple and
\* keep it as the witness if there is none yet.
ToyStep ==
    /\ cnf = ToyCNF
    /\ toy_pos < Pow2(ToyVars)
    /\ LET bits == toy_bits(toy_pos)
       IN  IF toy_sat(bits)
           THEN /\ toy_satisfying' = Append(toy_satisfying, bits)
                /\ toy_witness' = IF toy_witness = None THEN Some(bits) ELSE toy_witness
           ELSE UNCHANGED <<toy_satisfying, toy_witness>>
    /\ toy_pos' = toy_pos + 1
    /\ UNCHANGED <<pc, cnf, n_vars, max_nodes, sat_sol, genVars, ksVars, vcVars, tspVars, accVars, plmVars, pairVars,
                   runVars>>

NextSat == CallSolve3Sat \/ ToyStep

SpecSat == InitSat /\ [][NextSat]_vars

\* ------------------------------------------------------------- claim C1
\* What it means for the assignment of `mask` to satisfy a clause, stated
\* without the solver's evaluation order.
BitOf(mask, v) == ((mask \div Pow2(v)) % 2) = 1

MaskSatisfies(mask, cnfv) ==
    \A j \in 1 .. Len(cnfv) :
        \E l \in 1 .. 3 : BitOf(mask, cnfv[j][l][1]) # cnfv[j][l][2]

AssignmentSatisfies(bits, cnfv) ==
    \A j \in 1 .. Len(cnfv) :
        \E l \in 1 .. 3 : bits[cnfv[j][l][1] + 1] # cnfv[j][l][2]

ExploredMasks == 
    IF max_nodes = None THEN 0 .. (Pow2(n_vars) - 1)
    ELSE 0 .. (Min(Pow2(n_vars), max_nodes[1]) - 1)

\* C1: solve_3sat_bruteforce returns an assignment iff one of the first
\* min(2^n_vars, max_nodes) masks satisfies the CNF; a returned assignment has
\* length n_vars and satisfies every clause; under the track's cap
\* 2^min(n,22) with n <= 22 it returns None exactly when the CNF is
\* unsatisfiable.
C1_SatSoundComplete ==
    pc = "sat_ret" =>
        /\ (sat_sol # None) <=> (\E mask \in ExploredMasks : MaskSatisfies(mask, cnf))
        /\ sat_sol # None =>
              /\ Len(sat_sol[1]) = n_vars
              /\ AssignmentSatisfies(sat_sol[1], cnf)
        /\ (max_nodes = Some(TrackMaxNodes(n_vars)) /\ n_vars <= CapBits) =>
              ((sat_sol = None) <=>
                  ~ \E mask \in 0 .. (Pow2(n_vars) - 1) : MaskSatisfies(mask, cnf))

\* A cap that cuts the search before the first satisfying mask, and a found
\* assignment under the track's cap.
C1_Witness ==
    /\ pc = "sat_ret"
    /\ sat_sol = None
    /\ max_nodes # None
    /\ max_nodes[1] < Pow2(n_vars)
    /\ max_nodes[1] > 0
    /\ \E mask \in 0 .. (Pow2(n_vars) - 1) : MaskSatisfies(mask, cnf)

\* ------------------------------------------ specification: knapsack solver
Items == (1 .. MaxW) \X (1 .. MaxV)

InitKs ==
    /\ pc = "ks_call"
    /\ items \in UNION { [1 .. m -> Items] : m \in 0 .. MaxItems }
    /\ capacity \in 0 .. MaxCap
    /\ ks_out = None /\ items2 = <<>> /\ ks_out2 = None
    /\ SatIdle /\ VcIdle /\ TspIdle /\ AccIdle /\ PlmIdle /\ PairIdle /\ RunIdle

CallSolveKnapsack ==
    /\ pc = "ks_call"
    /\ ks_out' = Some(solve_knapsack_dp(items, capacity))
    /\ pc' = "ks_ret"
    /\ UNCHANGED <<items, capacity, items2, ks_out2, satVars, vcVars, tspVars, accVars, plmVars, pairVars, runVars>>

\* The list with its entries j and j + 1 exchanged.
swap_adjacent(its, j) ==
    [q \in 1 .. Len(its) |-> IF q = j THEN its[j + 1] ELSE IF q = j + 1 THEN its[j] ELSE its[q]]

\* A second call of solve_knapsack_dp, on the same items with two
\* neighbours exchanged and the same capacity. (Every reordering of a list
\* is a chain of such exchanges, and every list is drawn.)
CallSolveKnapsackReordered ==
    /\ pc = "ks_ret"
    /\ \E j \in 1 .. (Len(items) - 1) : items2' = swap_adjacent(items, j)
    /\ ks_out2' = Some(solve_knapsack_dp(items2', capacity))
    /\ pc' = "ks_ret2"
    /\ UNCHANGED <<items, capacity, ks_out, satVars, vcVars, tspVars, accVars, plmVars, pairVars, runVars>>

NextKs == CallSolveKnapsack \/ CallSolveKnapsackReordered

SpecKs == InitKs /\ [][NextKs]_vars

\* ------------------------------------------------------------- claim C2
RECURSIVE SumOver(_, _, _)
SumOver(S, its, field) ==
    IF S = {} THEN 0
    ELSE LET i == CHOOSE j \in S : TRUE
         IN  its[i][field] + SumOver(S \ {i}, its, field)

Feasible(its, cap) ==
    { S \in SUBSET (1 .. Len(its)) : SumOver(S, its, 1) <= cap }

\* C2: the best value of solve_knapsack_dp is the maximum total value over
\* the subsets of items (each used at most once) of total weight <= capacity.
C2_KnapsackOptimal ==
    pc = "ks_ret" =>
        /\ \E S \in Feasible(items, capacity) : SumOver(S, items, 2) = ks_out[1].best
        /\ \A S \in Feasible(items, capacity) : SumOver(S, items, 2) <= ks_out[1].best

\* An instance where the capacity forces a choice: not every item fits, and
\* the optimum takes more than one item.
C2_Witness ==
    /\ pc = "ks_ret"
    /\ Len(items) = 3
    /\ SumOver(1 .. 3, items, 1) > capacity
    /\ Len(ks_out[1].picked) = 2
    /\ ks_out[1].best > 0

\* -------------------------------------- specification: vertex-cover solver
InitVc ==
    /\ pc = "vc_call"
    /\ vc_n \in 0 .. MaxVerts
    /\ edges \in EdgeLists(vc_n)
    /\ vc_k \in 0 .. MaxK
    /\ vc_sol = None
    /\ SatIdle /\ KsIdle /\ TspIdle /\ AccIdle /\ PlmIdle /\ PairIdle /\ RunIdle

CallSolveVertexCover ==
    /\ pc = "vc_call"
    /\ vc_sol' = solve_vertex_cover_bruteforce(edges, vc_n, vc_k)
    /\ pc' = "vc_ret"
    /\ UNCHANGED <<edges, vc_n, vc_k, satVars, ksVars, tspVars, accVars, plmVars, pairVars, runVars>>

NextVc == CallSolveVertexCover

SpecVc == InitVc /\ [][NextVc]_vars

\* ------------------------------------------------------------- claim C3
IsCover(es, S) ==
    \A j \in 1 .. Len(es) : es[j][1] \in S \/ es[j][2] \in S

\* C3: a cover returned by solve_vertex_cover_bruteforce is a length-n
\* boolean vector with at most k true entries, and every edge has a selected
\* endpoint.
C3_CoverValid ==
    (pc = "vc_ret" /\ vc_sol # None) =>
        LET cover == vc_sol[1]
            S == { v \in 0 .. (vc_n - 1) : cover[v + 1] }
        IN  /\ Len(cover) = vc_n
            /\ \A i \in 1 .. vc_n : cover[i] \in BOOLEAN
            /\ Cardinality(S) <= vc_k
            /\ IsCover(edges, S)

\* A returned cover that uses the whole budget k >= 2 on a graph with edges.
C3_Witness ==
    /\ pc = "vc_ret"
    /\ vc_sol # None
    /\ vc_k >= 2
    /\ Len(edges) >= 3
    /\ Cardinality({ i \in 1 .. vc_n : vc_sol[1][i] }) = vc_k

\* ------------------------------------------------------------- claim C4
\* C4: solve_vertex_cover_bruteforce returns None only if no set of at most
\* k of the n vertices covers every edge.
C4_CoverComplete ==
    (pc = "vc_ret" /\ vc_sol = None) =>
        ~ \E S \in SUBSET (0 .. (vc_n - 1)) :
              Cardinality(S) <= vc_k /\ IsCover(edges, S)

\* None returned for a graph whose smallest cover is larger than k >= 1.
C4_Witness ==
    /\ pc = "vc_ret"
    /\ vc_sol = None
    /\ vc_k >= 1
    /\ \E S \in SUBSET (0 .. (vc_n - 1)) :
           Cardinality(S) = vc_k + 1 /\ IsCover(edges, S)

\* ------------------------------------------------- specification: TSP track
\* One iteration of the TSP track's body: a tour over drawn points (the
\* nearest-neighbour tour from vertex 0, or the points in their drawn order),
\* base_len, then tsp_2opt one examined pair (i, k) at a time.
Position(p) == <<p % GridWidth, p \div GridWidth>>

InitTsp ==
    /\ pc = "tsp_call"
    /\ \E n \in 3 .. MaxPts : points \in [1 .. n -> { Position(p) : p \in 0 .. MaxPos }]
    /\ tour \in { tsp_nearest_neighbor(points, 0), [p \in 1 .. Len(points) |-> p - 1] }
    /\ tour_in = tour
    /\ max_swaps \in {SmallMaxSwaps, TrackMaxSwaps}
    /\ base_len = 0 /\ swaps = 0 /\ improved = FALSE /\ ti = 0 /\ tk = 0
    /\ SatIdle /\ KsIdle /\ VcIdle /\ AccIdle /\ PlmIdle /\ PairIdle /\ RunIdle

\* base_len = tsp_tour_length(pts, tour); tsp_2opt: n < 4 returns the tour,
\* else swaps = 0, improved = True.
TspEnter ==
    /\ pc = "tsp_call"
    /\ base_len' = tsp_tour_length(points, tour)
    /\ swaps' = 0
    /\ IF Len(tour) < 4
       THEN pc' = "tsp_ret" /\ improved' = improved
       ELSE pc' = "tsp_while" /\ improved' = TRUE
    /\ UNCHANGED <<points, tour, tour_in, max_swaps, ti, tk, satVars, ksVars, vcVars, accVars, plmVars, pairVars, runVars>>

\* Mutant: the while test does not look at the swap ceiling.
TspWhileNoCeiling ==
    /\ pc = "tsp_while"
    /\ IF improved
       THEN /\ improved' = FALSE
            /\ ti' = 0
            /\ tk' = 2
            /\ pc' = "tsp_pair"
       ELSE /\ pc' = "tsp_ret"
            /\ UNCHANGED <<improved, ti, tk>>
    /\ UNCHANGED <<points, tour, tour_in, base_len, max_swaps, swaps, satVars, ksVars, vcVars, accVars, plmVars, pairVars, runVars>>

\* while improved and swaps < max_swaps: improved = False; the first pair
\* of the for loops is (0, 2).
TspWhile ==
    /\ pc = "tsp_while"
    /\ IF improved /\ swaps < max_swaps
       THEN /\ improved' = FALSE
            /\ ti' = 0
            /\ tk' = 2
            /\ pc' = "tsp_pair"
       ELSE /\ pc' = "tsp_ret"
            /\ UNCHANGED <<improved, ti, tk>>
    /\ UNCHANGED <<points, tour, tour_in, base_len, max_swaps, swaps, satVars, ksVars, vcVars, accVars, plmVars, pairVars, runVars>>

\* Mutant: every applied swap ends the pass, and the scan starts again from
\* the first pair.
TspPairRestart ==
    /\ pc = "tsp_pair"
    /\ LET swap == gain(points, tour, ti, tk) > GainEps
           swaps2 == IF swap THEN swaps + 1 ELSE swaps
           nxt == next_pair(Len(tour), ti, tk)
       IN  /\ tour' = IF swap THEN reverse_segment(tour, ti, tk) ELSE tour
           /\ swaps' = swaps2
           /\ improved' = (improved \/ swap)
           /\ IF swap \/ nxt = None
              THEN pc' = "tsp_while" /\ UNCHANGED <<ti, tk>>
              ELSE pc' = "tsp_pair" /\ ti' = nxt[1][1] /\ tk' = nxt[1][2]
    /\ UNCHANGED <<points, tour_in, base_len, max_swaps, satVars, ksVars, vcVars, accVars, plmVars, pairVars, runVars>>

\* The body of the inner for loop at (i, k), and the move to the next pair:
\* after a swap that reaches max_swaps both loops break; after any other
\* pair the scan goes on with the next pair of the same pass.
TspPair ==
    /\ pc = "tsp_pair"
    /\ LET swap == gain(points, tour, ti, tk) > GainEps
           swaps2 == IF swap THEN swaps + 1 ELSE swaps
           nxt == next_pair(Len(tour), ti, tk)
       IN  /\ tour' = IF swap THEN reverse_segment(tour, ti, tk) ELSE tour
           /\ swaps' = swaps2
           /\ improved' = (improved \/ swap)
           /\ IF (swap /\ swaps2 >= max_swaps) \/ nxt = None
              THEN pc' = "tsp_while" /\ UNCHANGED <<ti, tk>>
              ELSE pc' = "tsp_pair" /\ ti' = nxt[1][1] /\ tk' = nxt[1][2]
    /\ UNCHANGED <<points, tour_in, base_len, max_swaps, satVars, ksVars, vcVars, accVars, plmVars, pairVars, runVars>>

NextTsp == TspEnter \/ TspWhile \/ TspPair

SpecTsp == InitTsp /\ [][NextTsp]_vars

\* The function runs on: a call that can take a step takes it. The runs
\* followed to their end are those whose first point lies at position 0.
InitTspFair == InitTsp /\ points[1] = Position(0)

SpecTspFair == InitTspFair /\ [][NextTsp]_vars /\ WF_vars(NextTsp)

\* ------------------------------------------------------------- claim C5
\* C5: the cyclic tour length after tsp_2opt is at most the length before it
\* (base_len), and no step increases it: a step that changes the tour is a
\* swap of positive gain that lowers the length by exactly that gain.
C5_TwoOptNonWorsening ==
    [][ /\ tsp_tour_length(points', tour') <= tsp_tour_length(points, tour)
        /\ pc' # "tsp_call" => tsp_tour_length(points', tour') <= base_len'
        /\ (tour' # tour \/ swaps' # swaps) =>
              /\ pc = "tsp_pair"
              /\ swaps' = swaps + 1
              /\ gain(points, tour, ti, tk) > 0
              /\ tsp_tour_length(points', tour') =
                    tsp_tour_length(points, tour) - gain(points, tour, ti, tk)
      ]_vars

\* tsp_2opt has returned a tour strictly shorter than the one it was given
\* after more than one swap, the last one against the closing edge.
C5_Witness ==
    /\ pc = "tsp_ret"
    /\ swaps >= 2
    /\ tsp_tour_length(points, tour) < base_len
    /\ tk = Len(tour) - 1

\* ------------------------------------------- specification: the orchestrator
\* run_np_benchmarks under a clock that may advance by up to MaxStep ticks
\* before each read of a loop test and during each solver run; the
\* straight-line statements between them take less than a tick. The instances are random draws; a solver's outcome on a
\* drawn instance is a nondeterministic choice among the outcomes a draw can
\* have. The 3-SAT track's n is held in n_vars (it is passed as n_vars = n).
Tracks == {"3sat", "tsp", "vertex_cover", "knapsack"}
LoopTracks == {"3sat", "tsp", "vertex_cover"}
TrackOrder == <<"3sat", "tsp", "vertex_cover", "knapsack">>

\* return float(cfg.minutes) * 60.0, in ticks
deadline_seconds(mins) == (mins * 60 * OneSecond) \div MinutesDenom

\* Mutant: the elapsed time is added instead of subtracted.
time_left_sign_flipped(st, budget_s, t) == budget_s + (t - st)

\* return budget_s - (_now() - start), the clock read at time t
time_left(st, budget_s, t) == budget_s - (t - st)

\* Mutant: the default is the plain quarter of the budget, without the floor.
per_problem_budget_plain_quarter(pp, b) ==
    IF pp # None THEN pp[1] ELSE b \div 4

\* Mutant: cfg.per_problem_max_seconds is not consulted.
per_problem_budget_ignores_override(pp, b) == Max(OneSecond, b \div 4)

\* per_problem_budget(): the override if given, else max(1.0, budget / 4.0)
per_problem_budget(pp, b) ==
    IF pp # None THEN pp[1] ELSE Max(OneSecond, b \div 4)

\* Mutant: the loop test lets a reading of exactly 0.25 s through.
guard_ok_inclusive(left) == left >= GuardTicks

\* _time_left(...) > 0.25
guard_ok(left) == left > GuardTicks

Bump(f, t) == [f EXCEPT ![t] = @ + 1]

\* Mutant: the size of an attempt is recorded whether or not it was solved.
best_sat_update_always(b, n, m, found) ==
    [max_n |-> n, max_m |-> m,
     solved |-> IF found THEN b.solved + 1 ELSE b.solved,
     attempted |-> b.attempted + 1]

\* best_sat["attempted"] += 1; if sol is not None: solved += 1, max_n = n, max_m = m
best_sat_update(b, n, m, found) ==
    IF found
    THEN [max_n |-> n, max_m |-> m, solved |-> b.solved + 1, attempted |-> b.attempted + 1]
    ELSE [b EXCEPT !.attempted = @ + 1]

\* The clock at the next read: it has advanced by d ticks.
Ticks == { d \in 0 .. MaxStep : now + d <= MaxClock }

\* What the draws of a track's instance can lead to.
\* TSP: <<base_len, improved_len>>, tsp_2opt never lengthening the tour.
TspDrawn == { <<3, 3>>, <<3, 2>> }
\* Vertex cover: a graph of t disjoint edges has t edges and smallest cover t.
VcDrawn == { [tau |-> t, m |-> t] : t \in {0, VcMaxK, VcMaxK + 1} }
\* Knapsack: <<best_val, len(picked)>>.
KsDrawn == { <<7, 2>>, <<9, 3>> }

\* rng = random.Random(cfg.seed). The generator is a deterministic stream:
\* its state is the seed it was made from and the number of draws taken
\* since, and every draw is a function of that state.
make_rng(sd) == [seed |-> sd, pos |-> 0]

\* The state after k more draws (rng.sample, rng.getrandbits, rng.random,
\* rng.randint each count as one draw).
rng_advance(r, k) == [r EXCEPT !.pos = @ + k]

\* generate_random_3sat: per clause one rng.sample and three rng.getrandbits
draws_3sat(n_clauses) == 4 * n_clauses
\* generate_random_points: (rng.random(), rng.random()) per point
draws_points(n) == 2 * n
\* generate_random_graph_edges: one rng.random() per pair u < v
draws_edges(n) == (n * (n - 1)) \div 2
\* generate_random_knapsack: (rng.randint, rng.randint) per item
draws_knapsack(n) == 2 * n

\* The instance a generator returns: a function of its arguments and of the
\* generator state it starts from, named here by exactly those.
generate(r, kind, size) == [kind |-> kind, size |-> size, from |-> r]

\* best_val, picked = solve_knapsack_dp(items, capacity) on the items drawn
\* from generator state r: the solver is a function of the items, the items
\* a function of r, so the outcome is a function of r. Which outcome of
\* KsDrawn a state yields stands for the stream's content.
ks_result(r) ==
    CHOOSE x \in KsDrawn : x[2] = 2 + ((r.seed + r.pos + (r.pos \div 16)) % 2)

\* The spec's end-to-end scenario: minutes = 0.1, per_problem_max_seconds =
\* 0.02 (in ticks, rounded down: below the 0.25 s of the loop tests).
ScenarioMinutes == MinutesDenom \div 10
ScenarioPerProblem == (2 * OneSecond) \div 100

runOthers ==
    <<cnf, max_nodes, sat_sol, toyVars, genVars, ksVars, edges, vc_k, vc_sol, tspVars, accVars, plmVars, pairVars>>

InitRun ==
    /\ pc = <<"run", "start">>
    /\ minutes \in {-1, 0, 1, ScenarioMinutes, MaxMinutes}
    /\ per_problem_max_seconds \in
            {None, Some(ScenarioPerProblem), Some(GuardTicks), Some(MaxPerProblem)}
    /\ now = 0 /\ start = 0 /\ budget = 0 /\ t_start = <<>> /\ t_budget = <<>>
    /\ local_left = 0 /\ global_left = 0
    /\ best_sat = None /\ vc_best = None
    /\ problems = <<>> /\ completed = FALSE /\ seconds_total = 0
    /\ generated = [t \in Tracks |-> 0]
    /\ invoked = [t \in Tracks |-> 0]
    /\ order = <<>>
    /\ seed \in {DefaultSeed, DefaultSeed + 1}
    /\ rng = None /\ calls = <<>>
    /\ SatIdle /\ KsIdle /\ VcIdle /\ TspIdle /\ AccIdle /\ PlmIdle /\ PairIdle

\* start = _now(); budget = _deadline_seconds(cfg); results = {..., "problems": {}}
RunStart ==
    /\ pc = <<"run", "start">>
    /\ start' = now
    /\ budget' = deadline_seconds(minutes)
    /\ rng' = Some(make_rng(seed))
    /\ pc' = <<"3sat", "begin">>
    /\ UNCHANGED <<seed, calls, now, minutes, per_problem_max_seconds, t_start, t_budget, local_left,
                   global_left, best_sat, vc_best, problems, completed, seconds_total,
                   generated, invoked, order, n_vars, vc_n, runOthers>>

\* sat_start = _now(); sat_budget = per_problem_budget(); best_sat = {...}; n = 12
SatBegin ==
    /\ pc = <<"3sat", "begin">>
    /\ t_start' = t_start @@ ("3sat" :> now)
    /\ t_budget' = t_budget @@ ("3sat" :> per_problem_budget(per_problem_max_seconds, budget))
    /\ best_sat' = Some([max_n |-> 0, max_m |-> 0, solved |-> 0, attempted |-> 0])
    /\ n_vars' = SatStartN
    /\ order' = Append(order, "3sat")
    /\ pc' = <<"3sat", "guard_local">>
    /\ UNCHANGED <<rngVars, now, minutes, per_problem_max_seconds, start, budget, local_left,
                   global_left, vc_best, problems, completed, seconds_total,
                   generated, invoked, vc_n, runOthers>>

\* The first operand of a loop test: _time_left(<track>_start, <track>_budget) > 0.25
GuardLocal(t) ==
    /\ pc = <<t, "guard_local">>
    /\ \E d \in Ticks : now' = now + d
    /\ local_left' = time_left(t_start[t], t_budget[t], now')
    /\ pc' = IF guard_ok(local_left') THEN <<t, "guard_global">> ELSE <<t, "end">>
    /\ UNCHANGED <<rngVars, minutes, per_problem_max_seconds, start, budget, t_start, t_budget,
                   global_left, best_sat, vc_best, problems, completed, seconds_total,
                   generated, invoked, order, n_vars, vc_n, runOthers>>

\* Mutant: the loop test has no second operand (the global budget is not read).
GuardGlobalUnchecked(t) ==
    /\ pc = <<t, "guard_global">>
    /\ pc' = <<t, "body">>
    /\ UNCHANGED <<rngVars, now, minutes, per_problem_max_seconds, start, budget, t_start, t_budget,
                   local_left, global_left, best_sat, vc_best, problems, completed,
                   seconds_total, generated, invoked, order, n_vars, vc_n, runOthers>>

\* The second operand, evaluated when the first held: _time_left(start, budget) > 0.25
GuardGlobal(t) ==
    /\ pc = <<t, "guard_global">>
    /\ \E d \in Ticks : now' = now + d
    /\ global_left' = time_left(start, budget, now')
    /\ pc' = IF guard_ok(global_left') THEN <<t, "body">> ELSE <<t, "end">>
    /\ UNCHANGED <<rngVars, minutes, per_problem_max_seconds, start, budget, t_start, t_budget,
                   local_left, best_sat, vc_best, problems, completed, seconds_total,
                   generated, invoked, order, n_vars, vc_n, runOthers>>

\* Mutant: the iteration is cut short when a deadline passes during it, and
\* what the solver found is dropped.
SatBodyPreempted ==
    /\ pc = <<"3sat", "body">>
    /\ best_sat[1].attempted < MaxAttempts
    /\ \E d \in Ticks : now' = now + d
    /\ generated' = Bump(generated, "3sat")
    /\ invoked' = Bump(invoked, "3sat")
    /\ calls' = Append(calls, generate(rng[1], "3sat", n_vars))
    /\ rng' = Some(rng_advance(rng[1], draws_3sat(4 * n_vars)))
    /\ \E found \in BOOLEAN :
         LET kept == /\ found
                     /\ time_left(t_start["3sat"], t_budget["3sat"], now') > 0
                     /\ time_left(start, budget, now') > 0
         IN  /\ best_sat' = Some(best_sat_update(best_sat[1], n_vars, 4 * n_vars, kept))
             /\ IF kept
                THEN n_vars' = n_vars + 1 /\ pc' = <<"3sat", "guard_local">>
                ELSE n_vars' = n_vars /\ pc' = <<"3sat", "end">>
    /\ UNCHANGED <<seed, minutes, per_problem_max_seconds, start, budget, t_start, t_budget,
                   local_left, global_left, vc_best, problems, completed,
                   seconds_total, order, vc_n, runOthers>>

\* One iteration of the 3-SAT loop: draw a CNF of n variables and m = 4n
\* clauses, solve it under max_nodes = 1 << min(n, 22); found: record (n, m)
\* and n += 1; not found: break.
SatBody ==
    /\ pc = <<"3sat", "body">>
    /\ best_sat[1].attempted < MaxAttempts
    /\ \E d \in Ticks : now' = now + d
    /\ generated' = Bump(generated, "3sat")
    /\ invoked' = Bump(invoked, "3sat")
    /\ calls' = Append(calls, generate(rng[1], "3sat", n_vars))
    /\ rng' = Some(rng_advance(rng[1], draws_3sat(4 * n_vars)))
    /\ \E found \in BOOLEAN :
         /\ best_sat' = Some(best_sat_update(best_sat[1], n_vars, 4 * n_vars, found))
         /\ IF found
            THEN n_vars' = n_vars + 1 /\ pc' = <<"3sat", "guard_local">>
            ELSE n_vars' = n_vars /\ pc' = <<"3sat", "end">>
    /\ UNCHANGED <<seed, minutes, per_problem_max_seconds, start, budget, t_start, t_budget,
                   local_left, global_left, vc_best, problems, completed,
                   seconds_total, order, vc_n, runOthers>>

\* results["problems"]["3sat"] = {**best_sat, "seconds": _now() - sat_start}
SatEnd ==
    /\ pc = <<"3sat", "end">>
    /\ problems' = problems @@ ("3sat" :>
            [max_n |-> best_sat[1].max_n, max_m |-> best_sat[1].max_m,
             solved |-> best_sat[1].solved, attempted |-> best_sat[1].attempted,
             seconds |-> now - t_start["3sat"]])
    /\ pc' = <<"tsp", "begin">>
    /\ UNCHANGED <<rngVars, now, minutes, per_problem_max_seconds, start, budget, t_start, t_budget,
                   local_left, global_left, best_sat, vc_best, completed,
                   seconds_total, generated, invoked, order, n_vars, vc_n, runOthers>>

\* Mutant: the TSP section makes itself a fresh generator, seeded from the clock.
TspBeginReseeded ==
    /\ pc = <<"tsp", "begin">>
    /\ t_start' = t_start @@ ("tsp" :> now)
    /\ t_budget' = t_budget @@ ("tsp" :> per_problem_budget(per_problem_max_seconds, budget))
    /\ order' = Append(order, "tsp")
    /\ rng' = Some(make_rng(now))
    /\ pc' = <<"tsp", "guard_local">>
    /\ UNCHANGED <<seed, calls, now, minutes, per_problem_max_seconds, start, budget,
                   local_left, global_left, best_sat, vc_best, problems, completed,
                   seconds_total, generated, invoked, n_vars, vc_n, runOthers>>

\* tsp_start = _now(); tsp_budget = per_problem_budget(); tsp_n = 200
TspBegin ==
    /\ pc = <<"tsp", "begin">>
    /\ t_start' = t_start @@ ("tsp" :> now)
    /\ t_budget' = t_budget @@ ("tsp" :> per_problem_budget(per_problem_max_seconds, budget))
    /\ order' = Append(order, "tsp")
    /\ pc' = <<"tsp", "guard_local">>
    /\ UNCHANGED <<rngVars, now, minutes, per_problem_max_seconds, start, budget, local_left,
                   global_left, best_sat, vc_best, problems, completed,
                   seconds_total, generated, invoked, n_vars, vc_n, runOthers>>

\* The one iteration of the TSP loop: draw the points, build and improve the
\* tour, record the entry, break.
TspTrackBody ==
    /\ pc = <<"tsp", "body">>
    /\ \E d \in Ticks : now' = now + d
    /\ generated' = Bump(generated, "tsp")
    /\ invoked' = Bump(invoked, "tsp")
    /\ calls' = Append(calls, generate(rng[1], "tsp", TspN))
    /\ rng' = Some(rng_advance(rng[1], draws_points(TspN)))
    /\ \E lens \in TspDrawn :
         problems' = problems @@ ("tsp" :>
            [n |-> TspN, base_len |-> lens[1], improved_len |-> lens[2],
             improvement |-> Max(0, lens[1] - lens[2]),
             seconds |-> now' - t_start["tsp"]])
    /\ pc' = <<"vertex_cover", "begin">>
    /\ UNCHANGED <<seed, minutes, per_problem_max_seconds, start, budget, t_start, t_budget,
                   local_left, global_left, best_sat, vc_best, completed,
                   seconds_total, order, n_vars, vc_n, runOthers>>

\* The TSP loop test failed: nothing is recorded for the track.
TspSkip ==
    /\ pc = <<"tsp", "end">>
    /\ pc' = <<"vertex_cover", "begin">>
    /\ UNCHANGED <<satVars, ksVars, vcVars, tspVars, accVars, plmVars, pairVars, runVars>>

\* vc_start = _now(); vc_budget = per_problem_budget(); vc_n = 22; vc_best = {...}
VcBegin ==
    /\ pc = <<"vertex_cover", "begin">>
    /\ t_start' = t_start @@ ("vertex_cover" :> now)
    /\ t_budget' = t_budget @@ ("vertex_cover" :> per_problem_budget(per_problem_max_seconds, budget))
    /\ vc_n' = VcStartN
    /\ vc_best' = Some([n |-> 0, k |-> 0, found |-> FALSE])
    /\ order' = Append(order, "vertex_cover")
    /\ pc' = <<"vertex_cover", "guard_local">>
    /\ UNCHANGED <<rngVars, now, minutes, per_problem_max_seconds, start, budget, local_left,
                   global_left, best_sat, problems, completed, seconds_total,
                   generated, invoked, n_vars, runOthers>>

\* One iteration of the vertex-cover loop: draw a graph, try k = 0, 1, ...,
\* min(vc_n, 10) with the exact solver (the first k that succeeds is the
\* size of a smallest cover); found: record and vc_n += 1; else break.
VcBody ==
    /\ pc = <<"vertex_cover", "body">>
    /\ invoked["vertex_cover"] < MaxAttempts
    /\ \E d \in Ticks : now' = now + d
    /\ generated' = Bump(generated, "vertex_cover")
    /\ invoked' = Bump(invoked, "vertex_cover")
    /\ calls' = Append(calls, generate(rng[1], "vertex_cover", vc_n))
    /\ rng' = Some(rng_advance(rng[1], draws_edges(vc_n)))
    /\ \E g \in VcDrawn :
         IF g.tau <= Min(vc_n, VcMaxK)
         THEN /\ vc_best' = Some([n |-> vc_n, k |-> g.tau, found |-> TRUE, m |-> g.m])
              /\ vc_n' = vc_n + 1
              /\ pc' = <<"vertex_cover", "guard_local">>
         ELSE /\ UNCHANGED <<vc_best, vc_n>>
              /\ pc' = <<"vertex_cover", "end">>
    /\ UNCHANGED <<seed, minutes, per_problem_max_seconds, start, budget, t_start, t_budget,
                   local_left, global_left, best_sat, problems, completed,
                   seconds_total, order, n_vars, runOthers>>

\* results["problems"]["vertex_cover"] = {**vc_best, "seconds": ..., "note": ...}
VcEnd ==
    /\ pc = <<"vertex_cover", "end">>
    /\ problems' = problems @@ ("vertex_cover" :>
            IF vc_best[1].found
            THEN [n |-> vc_best[1].n, k |-> vc_best[1].k, found |-> TRUE,
                  m |-> vc_best[1].m, seconds |-> now - t_start["vertex_cover"]]
            ELSE [n |-> vc_best[1].n, k |-> vc_best[1].k, found |-> FALSE,
                  seconds |-> now - t_start["vertex_cover"]])
    /\ pc' = <<"knapsack", "run">>
    /\ UNCHANGED <<rngVars, now, minutes, per_problem_max_seconds, start, budget, t_start, t_budget,
                   local_left, global_left, best_sat, vc_best, completed,
                   seconds_total, generated, invoked, order, n_vars, vc_n, runOthers>>

\* The knapsack section, under no loop test: ks_start = _now(); ks_budget =
\* per_problem_budget(); draw the items, solve, record the entry.
KsRun ==
    /\ pc = <<"knapsack", "run">>
    /\ \E d \in Ticks : now' = now + d
    /\ t_start' = t_start @@ ("knapsack" :> now)
    /\ t_budget' = t_budget @@ ("knapsack" :> per_problem_budget(per_problem_max_seconds, budget))
    /\ order' = Append(order, "knapsack")
    /\ generated' = Bump(generated, "knapsack")
    /\ invoked' = Bump(invoked, "knapsack")
    /\ calls' = Append(calls, generate(rng[1], "knapsack", KsN))
    /\ rng' = Some(rng_advance(rng[1], draws_knapsack(KsN)))
    /\ LET r == ks_result(rng[1]) IN
         problems' = problems @@ ("knapsack" :>
            [n |-> KsN, capacity |-> KsCapacity, best_value |-> r[1],
             picked_count |-> r[2], seconds |-> now' - now])
    /\ pc' = <<"run", "finish">>
    /\ UNCHANGED <<seed, minutes, per_problem_max_seconds, start, budget, local_left,
                   global_left, best_sat, vc_best, completed, seconds_total,
                   n_vars, vc_n, runOthers>>

\* results["seconds_total"] = _now() - start; results["completed"] = True
Finish ==
    /\ pc = <<"run", "finish">>
    /\ seconds_total' = now - start
    /\ completed' = TRUE
    /\ pc' = <<"run", "done">>
    /\ UNCHANGED <<rngVars, now, minutes, per_problem_max_seconds, start, budget, t_start, t_budget,
                   local_left, global_left, best_sat, vc_best, problems,
                   generated, invoked, order, n_vars, vc_n, runOthers>>

NextRun ==
    \/ RunStart
    \/ SatBegin
    \/ \E t \in LoopTracks : GuardLocal(t)
    \/ \E t \in LoopTracks : GuardGlobal(t)
    \/ SatBody
    \/ SatEnd
    \/ TspBegin
    \/ TspTrackBody
    \/ TspSkip
    \/ VcBegin
    \/ VcBody
    \/ VcEnd
    \/ KsRun
    \/ Finish

SpecRun == InitRun /\ [][NextRun]_vars

\* ------------------------------------------------------------- claim C6
InLoopAt(p, t) == p[1] = t /\ p[2] \in {"guard_local", "guard_global", "body"}

\* C6: an iteration of the 3-SAT, TSP or vertex-cover loop (an instance is
\* drawn, the solver called) begins only after a loop test whose two
\* readings, the per-problem and the global time left, both exceeded 0.25 s,
\* each reading being a time left no smaller than the one at the iteration's
\* begin; a test with a reading <= 0.25 s leaves the loop, and a loop that
\* was left starts no further iteration.
C6_IterationOnlyWithTimeLeft ==
    [][ \A t \in LoopTracks :
          /\ pc' = <<t, "body">> =>
                (local_left' > GuardTicks /\ global_left' > GuardTicks)
          /\ (generated'[t] # generated[t] \/ invoked'[t] # invoked[t]) =>
                /\ pc = <<t, "body">>
                /\ local_left > GuardTicks
                /\ global_left > GuardTicks
                /\ local_left >= t_budget[t] - (now - t_start[t])
                /\ global_left >= budget - (now - start)
                /\ local_left <= t_budget[t]
                /\ global_left <= budget - (t_start[t] - start)
          /\ (pc = <<t, "guard_local">> /\ local_left' <= GuardTicks) => pc' = <<t, "end">>
          /\ (pc = <<t, "guard_global">> /\ global_left' <= GuardTicks) => pc' = <<t, "end">>
          /\ (t \in DOMAIN t_start /\ ~InLoopAt(pc, t)) =>
                (~InLoopAt(pc', t) /\ generated'[t] = generated[t] /\ invoked'[t] = invoked[t])
      ]_vars

\* A second 3-SAT iteration begins with the per-problem reading just above
\* the threshold.
C6_Witness ==
    /\ pc = <<"3sat", "body">>
    /\ best_sat[1].attempted = 1
    /\ local_left = GuardTicks + 1
    /\ global_left > GuardTicks

\* ------------------------------------------------------------- claim C7
InSatLoop == InLoopAt(pc, "3sat")

\* C7: in the 3-SAT track n starts at 12 and has grown by one per solved
\* attempt; (max_n, max_m) is (0, 0) while nothing is solved and otherwise
\* the size (n, 4n) of the last solved attempt, max_n = 11 + solved; at most
\* one attempt failed, and after a failed attempt the loop is over; the
\* recorded entry is that best_sat.
C7_SatTrackBest ==
    best_sat # None =>
        LET b == best_sat[1]
        IN  /\ n_vars = SatStartN + b.solved
            /\ b.solved = 0 => (b.max_n = 0 /\ b.max_m = 0)
            /\ b.solved > 0 =>
                  (b.max_n = 11 + b.solved /\ b.max_n = n_vars - 1 /\ b.max_m = 4 * b.max_n)
            /\ b.attempted - b.solved \in {0, 1}
            /\ b.attempted = invoked["3sat"]
            /\ b.attempted > b.solved => ~InSatLoop
            /\ "3sat" \in DOMAIN problems =>
                  /\ problems["3sat"].max_n = b.max_n
                  /\ problems["3sat"].max_m = b.max_m
                  /\ problems["3sat"].solved = b.solved
                  /\ problems["3sat"].attempted = b.attempted

\* The track has ended on a failed second attempt after a solved first one.
C7_Witness ==
    /\ "3sat" \in DOMAIN problems
    /\ problems["3sat"].attempted = 2
    /\ problems["3sat"].solved = 1
    /\ problems["3sat"].max_n = SatStartN

\* ------------------------------------------------------------- claim C8
\* The global budget was used up when the track's section began.
ExhaustedAtTurn(t) ==
    t \in DOMAIN t_start /\ budget - (t_start[t] - start) <= 0

IsPrefix(a, b) == Len(a) <= Len(b) /\ \A i \in 1 .. Len(a) : a[i] = b[i]

\* C8 as stated: the tracks run in the order 3sat, tsp, vertex_cover,
\* knapsack; a track whose turn comes with the global budget exhausted is not
\* started and has no entry in the report; the report is completed.
C8_ExhaustedTrackOmitted ==
    /\ IsPrefix(order, TrackOrder)
    /\ pc = <<"run", "done">> => completed
    /\ \A t \in Tracks :
          ExhaustedAtTurn(t) => (t \notin DOMAIN problems /\ invoked[t] = 0)

\* C8 amended: the tracks run in that order and the report is completed;
\* with the global budget exhausted at its turn a loop track runs no
\* iteration, the TSP track alone is omitted, the 3-SAT and vertex-cover
\* tracks still record their zero entry, and the knapsack track always runs
\* and is recorded.
C8_ExhaustedTrackRunsNoIteration ==
    /\ IsPrefix(order, TrackOrder)
    /\ \A t \in Tracks : t \in DOMAIN problems =>
          \E i \in 1 .. Len(order) : order[i] = t
    /\ \A t \in LoopTracks :
          ExhaustedAtTurn(t) => (generated[t] = 0 /\ invoked[t] = 0)
    /\ ("tsp" \in DOMAIN problems) <=> (invoked["tsp"] = 1)
    /\ pc = <<"run", "done">> =>
          /\ completed
          /\ order = TrackOrder
          /\ {"3sat", "vertex_cover", "knapsack"} \subseteq DOMAIN problems
          /\ invoked["knapsack"] = 1
          /\ ExhaustedAtTurn("3sat") =>
                (problems["3sat"].attempted = 0 /\ problems["3sat"].max_n = 0)
          /\ ExhaustedAtTurn("tsp") => "tsp" \notin DOMAIN problems
          /\ ExhaustedAtTurn("vertex_cover") =>
                (~problems["vertex_cover"].found /\ problems["vertex_cover"].n = 0)

\* A finished run in which the budget ran out during the 3-SAT track: TSP is
\* omitted, the later tracks are recorded.
C8_Witness ==
    /\ pc = <<"run", "done">>
    /\ invoked["3sat"] >= 1
    /\ ExhaustedAtTurn("tsp")
    /\ ExhaustedAtTurn("knapsack")
    /\ "tsp" \notin DOMAIN problems
    /\ "knapsack" \in DOMAIN problems

C10_NothingRunsWithoutBudget ==
    minutes <= 0 =>
        /\ \A t \in Tracks : generated[t] = 0 /\ invoked[t] = 0
        /\ "tsp" \notin DOMAIN problems
        /\ "knapsack" \notin DOMAIN problems
        /\ "3sat" \in DOMAIN problems =>
              (problems["3sat"].solved = 0 /\ problems["3sat"].attempted = 0
                  /\ problems["3sat"].max_n = 0)
        /\ "vertex_cover" \in DOMAIN problems => ~problems["vertex_cover"].found

\* C10 amended: with minutes <= 0 the three loops exit at once (no instance,
\* no solver call, 3-SAT all zero, vertex cover not found, no TSP entry); the
\* knapsack track, which is under no loop test, still draws and solves its
\* instance.
C10_LoopsExitWithoutBudget ==
    minutes <= 0 =>
        /\ \A t \in LoopTracks : generated[t] = 0 /\ invoked[t] = 0
        /\ "tsp" \notin DOMAIN problems
        /\ "3sat" \in DOMAIN problems =>
              (problems["3sat"].solved = 0 /\ problems["3sat"].attempted = 0
                  /\ problems["3sat"].max_n = 0 /\ problems["3sat"].max_m = 0)
        /\ "vertex_cover" \in DOMAIN problems =>
              (~problems["vertex_cover"].found /\ problems["vertex_cover"].n = 0
                  /\ problems["vertex_cover"].k = 0)
        /\ pc = <<"run", "done">> =>
              /\ DOMAIN problems = {"3sat", "vertex_cover", "knapsack"}
              /\ generated["knapsack"] = 1
              /\ invoked["knapsack"] = 1

\* A finished run with a negative budget and a per-problem override large
\* enough to pass the first operand of the loop tests.
C10_Witness ==
    /\ pc = <<"run", "done">>
    /\ minutes < 0
    /\ per_problem_max_seconds = Some(MaxPerProblem)
    /\ generated["knapsack"] = 1

\* ------------------------------------------------------------ claim C11
\* The draws a recorded generator call took.
DrawsOf(c) ==
    CASE c.kind = "3sat" -> draws_3sat(4 * c.size)
      [] c.kind = "tsp" -> draws_points(c.size)
      [] c.kind = "vertex_cover" -> draws_edges(c.size)
      [] c.kind = "knapsack" -> draws_knapsack(c.size)

RECURSIVE DrawsBefore(_, _)
DrawsBefore(cs, i) == IF i <= 1 THEN 0 ELSE DrawsOf(cs[i - 1]) + DrawsBefore(cs, i - 1)

\* C11: generation is deterministic. Every instance drawn in a run is the
\* one the generator made from cfg.seed yields after the generator calls
\* that came before it (their tracks and sizes), so two runs with the same
\* seed and the same sequence of generator calls draw identical instances;
\* the one generator is never reseeded or replaced between tracks.
C11_GenerationDeterministic ==
    /\ \A i \in 1 .. Len(calls) :
          calls[i].from = [seed |-> seed, pos |-> DrawsBefore(calls, i)]
    /\ rng # None =>
          rng[1] = [seed |-> seed, pos |-> DrawsBefore(calls, Len(calls) + 1)]

\* A finished run that drew instances in three different tracks, the later
\* ones from a generator state that earlier tracks had advanced.
C11_Witness ==
    /\ pc = <<"run", "done">>
    /\ generated["3sat"] >= 2 /\ generated["tsp"] = 1 /\ generated["vertex_cover"] >= 1
    /\ Len(calls) >= 5
    /\ calls[Len(calls)].kind = "knapsack" /\ calls[Len(calls)].from.pos > 0

\* ------------------------------------------------------------ claim C12
InScenario ==
    /\ seed = DefaultSeed /\ minutes = ScenarioMinutes
    /\ per_problem_max_seconds = Some(ScenarioPerProblem)

\* C12: with seed = 1337, minutes = 0.1 and per_problem_max_seconds = 0.02
\* every run ends with completed = true and the same knapsack best_value,
\* however the clock advanced during the run: the knapsack items are the
\* first draws of the generator made from the seed.
C12_ScenarioKnapsackReproducible ==
    (InScenario /\ pc = <<"run", "done">>) =>
        /\ completed
        /\ problems["knapsack"].best_value = ks_result(make_rng(DefaultSeed))[1]
        /\ calls = <<generate(make_rng(DefaultSeed), "knapsack", KsN)>>

\* A finished run of the scenario during which the clock advanced.
C12_Witness ==
    /\ InScenario /\ pc = <<"run", "done">>
    /\ seconds_total >= 2
    /\ t_start["knapsack"] > start

\* ------------------------- specification: tsp_nearest_neighbor_accel
\* dist = sqrt(dx * dx + dy * dy) on float32 arrays: the same root at the
\* coarser resolution of single precision, 1 / Scale32, rounded down.
dist32(a, b) ==
    LET dx == Abs(a[1] - b[1])
        dy == Abs(a[2] - b[2])
        sq == Scale32 * Scale32 * (dx * dx + dy * dy)
    IN  CHOOSE r \in (Scale32 * Max(dx, dy)) .. (Scale32 * (dx + dy)) :
            r * r <= sq /\ (r + 1) * (r + 1) > sq

\* Mutant: among equal smallest entries the last index is taken.
accel_next_last_tie(pts, cur, visited) ==
    LET open == (0 .. (Len(pts) - 1)) \ visited
    IN  CHOOSE j \in open :
            /\ \A h \in open : dist32(pts[cur + 1], pts[j + 1]) <= dist32(pts[cur + 1], pts[h + 1])
            /\ \A h \in open :
                   h > j => dist32(pts[cur + 1], pts[h + 1]) > dist32(pts[cur + 1], pts[j + 1])

\* row = dist[cur].copy(); row[visited] = inf; nxt = int(argmin(row)):
\* argmin returns the first index of the smallest entry.
accel_next(pts, cur, visited) ==
    LET open == (0 .. (Len(pts) - 1)) \ visited
    IN  CHOOSE j \in open :
            /\ \A h \in open : dist32(pts[cur + 1], pts[j + 1]) <= dist32(pts[cur + 1], pts[h + 1])
            /\ \A h \in open :
                   h < j => dist32(pts[cur + 1], pts[h + 1]) > dist32(pts[cur + 1], pts[j + 1])

Backends == {"cupy", "torch"}

\* str(exc) of the exception raised in the try block of backend b: each
\* library words its errors its own way.
exc_text(b) == IF b = "cupy" THEN "cupy: CUDA error" ELSE "torch: CUDA error"

\* Where control goes when the cupy block is not entered or has failed
\* ("torch"), and when the torch block is not entered or has failed ("cpu").
accel_stage(a, from) ==
    IF from = "cupy" /\ a.cupy THEN <<"cupy", "setup">>
    ELSE IF from \in {"cupy", "torch"} /\ a.torch THEN <<"torch", "setup">>
    ELSE <<"accel", "cpu">>

accel_after(b) == IF b = "cupy" THEN "torch" ELSE "cpu"

accOthers == <<satVars, ksVars, vcVars, tour, tour_in, base_len, max_swaps, swaps,
               improved, ti, tk, plmVars, pairVars, runVars>>

InitAccel ==
    /\ pc = <<"accel", "call">>
    /\ \E n \in {0, 1, MaxPts} : points \in [1 .. n -> { Position(p) : p \in 0 .. MaxPos }]
    /\ nn_start \in {0, Max(0, Len(points) - 1)}
    /\ acc = <<>> /\ acc_tour = <<>> /\ acc_meta = "cpu" /\ acc_tried = <<>> /\ acc_out = None
    /\ acc_used_gpu = FALSE /\ acc_error = None /\ acc_raised = <<>> /\ acc_by = "none"
    /\ tour = <<>> /\ tour_in = <<>> /\ base_len = 0 /\ max_swaps = 0 /\ swaps = 0
    /\ improved = FALSE /\ ti = 0 /\ tk = 0
    /\ SatIdle /\ KsIdle /\ VcIdle /\ PlmIdle /\ PairIdle /\ RunIdle

\* n == 0 returns [], meta; else acc = _detect_accelerators(), whose two
\* cuda flags are whatever the machine reports.
AccelEnter ==
    /\ pc = <<"accel", "call">>
    /\ IF Len(points) = 0
       THEN /\ acc_out' = Some(<<>>)
            /\ acc_by' = "literal"
            /\ pc' = <<"accel", "done">>
            /\ acc' = acc
       ELSE /\ acc' \in [cupy : BOOLEAN, torch : BOOLEAN]
            /\ pc' = accel_stage(acc', "cupy")
            /\ acc_out' = acc_out
            /\ acc_by' = acc_by
    /\ UNCHANGED <<points, nn_start, acc_tour, acc_meta, acc_tried, acc_used_gpu,
                   acc_error, acc_raised, accOthers>>

\* The try block of backend b up to its for loop: import, the arrays, the
\* distance matrix, visited, tour = [int(start)], cur.
BackendSetup(b) ==
    /\ pc = <<b, "setup">>
    /\ acc_tried' = Append(acc_tried, b)
    /\ acc_tour' = <<nn_start>>
    /\ pc' = <<b, "loop">>
    /\ UNCHANGED <<points, nn_start, acc, acc_meta, acc_out, accMeta, accOthers>>

\* One iteration of for _ in range(n - 1): the nearest unvisited point.
BackendStep(b) ==
    /\ pc = <<b, "loop">>
    /\ Len(acc_tour) < Len(points)
    /\ acc_tour' = Append(acc_tour,
            accel_next(points, acc_tour[Len(acc_tour)], { acc_tour[q] : q \in 1 .. Len(acc_tour) }))
    /\ UNCHANGED <<pc, points, nn_start, acc, acc_meta, acc_tried, acc_out, accMeta,
                   accOthers>>

\* meta = {"backend": b, "used_gpu": True, ...}; return tour, meta
BackendReturn(b) ==
    /\ pc = <<b, "loop">>
    /\ Len(acc_tour) = Len(points)
    /\ acc_meta' = b
    /\ acc_used_gpu' = TRUE
    /\ acc_error' = None
    /\ acc_out' = Some(acc_tour)
    /\ acc_by' = b
    /\ pc' = <<"accel", "done">>
    /\ UNCHANGED <<points, nn_start, acc, acc_tour, acc_tried, acc_raised, accOthers>>

\* Mutant: an exception of the backend leaves the function.
BackendRaiseUncaught(b) ==
    /\ pc \in {<<b, "setup">>, <<b, "loop">>}
    /\ acc_tried' = IF pc[2] = "setup" THEN Append(acc_tried, b) ELSE acc_tried
    /\ pc' = <<"accel", "raised">>
    /\ UNCHANGED <<points, nn_start, acc, acc_tour, acc_meta, acc_out, accMeta, accOthers>>

\* Mutant: a second failure leaves the meta of the first one in place.
BackendRaiseKeepsFirst(b) ==
    /\ pc \in {<<b, "setup">>, <<b, "loop">>}
    /\ acc_tried' = IF pc[2] = "setup" THEN Append(acc_tried, b) ELSE acc_tried
    /\ acc_raised' = Append(acc_raised, <<b, exc_text(b)>>)
    /\ acc_error' = IF acc_raised = <<>> THEN Some(exc_text(b)) ELSE acc_error
    /\ acc_meta' = IF acc_raised # <<>> THEN acc_meta
                   ELSE IF b = "cupy" THEN "cupy_failed" ELSE "torch_failed"
    /\ acc_used_gpu' = FALSE
    /\ pc' = accel_stage(acc, accel_after(b))
    /\ UNCHANGED <<points, nn_start, acc, acc_tour, acc_out, acc_by, accOthers>>

\* A statement of the try block of backend b raises an Exception, before
\* the loop or inside it: except Exception sets meta = {"backend":
\* "<b>_failed", ...} and control falls to the next candidate.
BackendRaise(b) ==
    /\ pc \in {<<b, "setup">>, <<b, "loop">>}
    /\ acc_tried' = IF pc[2] = "setup" THEN Append(acc_tried, b) ELSE acc_tried
    /\ acc_raised' = Append(acc_raised, <<b, exc_text(b)>>)
    /\ acc_error' = Some(exc_text(b))
    /\ acc_meta' = IF b = "cupy" THEN "cupy_failed" ELSE "torch_failed"
    /\ acc_used_gpu' = FALSE
    /\ pc' = accel_stage(acc, accel_after(b))
    /\ UNCHANGED <<points, nn_start, acc, acc_tour, acc_out, acc_by, accOthers>>

\* tour = tsp_nearest_neighbor(points, start=start); return tour, meta
CpuRun ==
    /\ pc = <<"accel", "cpu">>
    /\ acc_tour' = tsp_nearest_neighbor(points, nn_start)
    /\ acc_out' = Some(acc_tour')
    /\ acc_by' = "cpu"
    /\ pc' = <<"accel", "done">>
    /\ UNCHANGED <<points, nn_start, acc, acc_meta, acc_tried, acc_used_gpu, acc_error,
                   acc_raised, accOthers>>

NextAccel ==
    \/ AccelEnter
    \/ \E b \in Backends : BackendSetup(b)
    \/ \E b \in Backends : BackendStep(b)
    \/ \E b \in Backends : BackendReturn(b)
    \/ \E b \in Backends : BackendRaise(b)
    \/ CpuRun

SpecAccel == InitAccel /\ [][NextAccel]_vars

\* ------------------------------------------------------------ claim C13
AccelReturned == pc = <<"accel", "done">> /\ Len(points) > 0

\* C13: tsp_nearest_neighbor_accel never lets a backend's exception out.
\* CuPy is tried first if it reports CUDA, then Torch if it reports CUDA
\* and CuPy did not return; when no backend returned, the result is the
\* tour of the CPU tsp_nearest_neighbor on the same points and start,
\* whatever part of a tour a failed backend had built.
C13_AccelFailureFallsBack ==
    /\ pc # <<"accel", "raised">>
    /\ acc_tried \in {<<>>, <<"cupy">>, <<"torch">>, <<"cupy", "torch">>}
    /\ AccelReturned =>
          /\ (\E q \in 1 .. Len(acc_tried) : acc_tried[q] = "cupy") <=> acc.cupy
          /\ (\E q \in 1 .. Len(acc_tried) : acc_tried[q] = "torch")
                <=> (acc.torch /\ acc_meta # "cupy")
          /\ acc_meta \notin Backends =>
                acc_out = Some(tsp_nearest_neighbor(points, nn_start))

\* Both backends were entered and failed, and the CPU tour that is returned
\* is not the one single-precision distances lead to.
C13_Witness ==
    /\ AccelReturned
    /\ acc_tried = <<"cupy", "torch">> /\ acc_meta = "torch_failed"
    /\ Len(points) = MaxPts
    /\ \E q \in 2 .. Len(points) :
          acc_out[1][q] # accel_next(points, acc_out[1][q - 1], { acc_out[1][h] : h \in 1 .. (q - 1) })

\* ------------------------------------------------------------ claim C14
AccelSucceeded == AccelReturned /\ acc_meta \in Backends

\* Single precision keeps the order and the ties of the distances from
\* every point.
Float32KeepsOrder(pts) ==
    \A a, b, c \in 1 .. Len(pts) :
        (dist(pts[a], pts[b]) < dist(pts[a], pts[c]))
            <=> (dist32(pts[a], pts[b]) < dist32(pts[a], pts[c]))

IsFirstSatisfyingMask(mask, cnfv) ==
    /\ MaskSatisfies(mask, cnfv)
    /\ \A smaller \in 0 .. (mask - 1) : ~MaskSatisfies(smaller, cnfv)

\* C15: an assignment returned by solve_3sat_bruteforce is the first
\* satisfying one in ascending bit-pattern order (variable i is bit i of
\* the mask, no smaller mask satisfies the CNF), and it is the same under
\* every node cap that lets an assignment be returned: it is a function of
\* the CNF and n_vars alone.
C15_FirstSatisfyingMask ==
    (pc = "sat_ret" /\ sat_sol # None) =>
        /\ \E mask \in 0 .. (Pow2(n_vars) - 1) :
              /\ IsFirstSatisfyingMask(mask, cnf)
              /\ \A v \in 0 .. (n_vars - 1) : sat_sol[1][v + 1] = BitOf(mask, v)
        /\ \A c \in Caps(n_vars) :
              LET other == solve_3sat_bruteforce(cnf, n_vars, c)
              IN  other # None => other = sat_sol

\* An assignment was returned whose mask is not 0, for a CNF that a larger
\* mask satisfies too.
C15_Witness ==
    /\ pc = "sat_ret" /\ sat_sol # None /\ n_vars = MaxVars
    /\ \E v \in 1 .. n_vars : sat_sol[1][v]
    /\ \E v \in 1 .. n_vars : ~sat_sol[1][v]
    /\ MaskSatisfies(Pow2(n_vars) - 1, cnf)
    /\ max_nodes # None

\* ------------------------------------------------------------ claim C16
\* The mask of a triple (a, b, c) of the reference enumeration: a is x0,
\* b is x1, c is x2, variable i being bit i.
TripleMask(bits) == bits[1] + 2 * bits[2] + 4 * bits[3]

ToyFinished ==
    /\ cnf = ToyCNF /\ toy_pos = Pow2(ToyVars)
    /\ pc = "sat_ret" /\ max_nodes \in {None, Some(TrackMaxNodes(ToyVars))}

\* C16 as stated: 6 of the 8 assignments satisfy the fixed CNF, the
\* all-false one is rejected, and both searches return the first satisfying
\* assignment in ascending bit order (variable i as bit i).
C16_ToyBothFirstInBitOrder ==
    ToyFinished =>
        /\ Len(toy_satisfying) = 6
        /\ \A q \in 1 .. Len(toy_satisfying) : toy_satisfying[q] # <<0, 0, 0>>
        /\ sat_sol # None /\ toy_witness # None
        /\ \E mask \in 0 .. 7 :
              /\ IsFirstSatisfyingMask(mask, cnf)
              /\ \A v \in 0 .. 2 : sat_sol[1][v + 1] = BitOf(mask, v)
        /\ IsFirstSatisfyingMask(TripleMask(toy_witness[1]), cnf)

\* C16 amended: 6 of the 8 assignments satisfy the fixed CNF and the
\* all-false one is rejected; each search returns the first satisfying
\* assignment of its own order. solve_3sat_bruteforce counts masks with x0
\* as the lowest bit and returns x0 = true, x1 = x2 = false; the reference
\* enumeration counts triples with x0 as the highest digit and returns
\* "001", that is x2 = true, x0 = x1 = false.
C16_ToyEachFirstInOwnOrder ==
    ToyFinished =>
        /\ Len(toy_satisfying) = 6
        /\ Cardinality({ mask \in 0 .. 7 : MaskSatisfies(mask, cnf) }) = 6
        /\ \A q \in 1 .. Len(toy_satisfying) :
              /\ toy_satisfying[q] # <<0, 0, 0>>
              /\ MaskSatisfies(TripleMask(toy_satisfying[q]), cnf)
        /\ sat_sol = Some(<<TRUE, FALSE, FALSE>>)
        /\ IsFirstSatisfyingMask(1, cnf)
        /\ toy_witness = Some(<<0, 0, 1>>)
        /\ toy_witness[1] = toy_satisfying[1]
        /\ \A q \in 1 .. (Len(toy_satisfying) - 1) :
              (4 * toy_satisfying[q][1] + 2 * toy_satisfying[q][2]) + toy_satisfying[q][3]
                < (4 * toy_satisfying[q + 1][1] + 2 * toy_satisfying[q + 1][2])
                    + toy_satisfying[q + 1][3]

\* Both searches have run over all 8 assignments of the fixed CNF and
\* returned different witnesses.
C16_Witness ==
    /\ ToyFinished /\ sat_sol # None /\ toy_witness # None
    /\ \E v \in 1 .. 3 : sat_sol[1][v] # (toy_witness[1][v] = 1)

\* ------------------------------------------------------------ claim C17
KsReturned == pc \in {"ks_ret", "ks_ret2"}

\* C17: the picked list of solve_knapsack_dp is a feasible witness of the
\* returned value: indices within 0 .. n - 1, strictly increasing (hence
\* distinct), of total weight <= capacity and of total value best.
C17_PickedIsWitness ==
    KsReturned =>
        LET p == ks_out[1].picked
            S == { p[q] + 1 : q \in 1 .. Len(p) }
        IN  /\ \A q \in 1 .. Len(p) : p[q] \in 0 .. (Len(items) - 1)
            /\ \A q \in 1 .. (Len(p) - 1) : p[q] < p[q + 1]
            /\ SumOver(S, items, 1) <= capacity
            /\ SumOver(S, items, 2) = ks_out[1].best

\* Two of three items picked, the first item left out, under a capacity
\* that does not hold all three.
C17_Witness ==
    /\ pc = "ks_ret" /\ Len(items) = 3
    /\ ks_out[1].picked = <<1, 2>>
    /\ SumOver(1 .. 3, items, 1) > capacity

\* ------------------------------------------------------------ claim C18
\* C18: the best value of solve_knapsack_dp does not depend on the order of
\* the items: for the same capacity the reordered list gives the same value
\* (the picked items may be different ones).
C18_ValueOrderInvariant ==
    pc = "ks_ret2" => ks_out2[1].best = ks_out[1].best

\* The reordered call returned the same value through different items: the
\* weights and values picked are not those picked in the first call.
C18_Witness ==
    /\ pc = "ks_ret2" /\ ks_out[1].best > 0
    /\ items2 # items
    /\ { items2[ks_out2[1].picked[q] + 1] : q \in 1 .. Len(ks_out2[1].picked) }
          # { items[ks_out[1].picked[q] + 1] : q \in 1 .. Len(ks_out[1].picked) }

\* ------------------------------------------------------------ claim C19
\* The pairs (i, k) the two for loops of a pass go through, and their order.
PassPairs(n) ==
    { p \in (0 .. (n - 2)) \X (2 .. (n - 1)) :
        p[2] >= p[1] + 2 /\ (p[1] = 0 => p[2] <= n - 2) }

PairBefore(p, q) == p[1] < q[1] \/ (p[1] = q[1] /\ p[2] < q[2])

PairsAfter(n, p) == { q \in PassPairs(n) : PairBefore(p, q) }

SwapApplied == pc = "tsp_pair" /\ swaps' = swaps + 1

\* C19 as stated: a swap is applied iff its gain exceeds 1e-12, and after an
\* applied swap the scan restarts from the first pair before any further
\* pair is examined.
C19_SwapRestartsScan ==
    [][ /\ pc = "tsp_pair" => (SwapApplied <=> gain(points, tour, ti, tk) > GainEps)
        /\ SwapApplied => pc' = "tsp_while"
      ]_vars

\* C19 amended: a swap is applied iff its gain exceeds 1e-12, the segment
\* i+1 .. k being reversed in place; after a pair, swapped or not, the scan
\* goes on with the next pair of the same pass, and leaves the pass only
\* when the pairs are used up or the swap ceiling is reached. A new pass
\* from the first pair starts at the while test, if the pass before applied
\* a swap and the ceiling is not reached.
C19_SwapContinuesPass ==
    [][ /\ pc = "tsp_pair" =>
              LET n == Len(tour)
                  rest == PairsAfter(n, <<ti, tk>>)
              IN  /\ SwapApplied <=> gain(points, tour, ti, tk) > GainEps
                  /\ swaps' \in {swaps, swaps + 1}
                  /\ \A q \in 1 .. n :
                        tour'[q] = IF SwapApplied /\ q >= ti + 2 /\ q <= tk + 1
                                   THEN tour[(ti + 2) + (tk + 1) - q]
                                   ELSE tour[q]
                  /\ IF rest # {} /\ swaps' < max_swaps
                     THEN /\ pc' = "tsp_pair"
                          /\ <<ti', tk'>> \in rest
                          /\ \A q \in rest : q = <<ti', tk'>> \/ PairBefore(<<ti', tk'>>, q)
                     ELSE pc' = "tsp_while"
        /\ (pc = "tsp_while" /\ pc' = "tsp_pair") =>
              /\ improved /\ swaps < max_swaps
              /\ <<ti', tk'>> = <<0, 2>>
      ]_vars

\* A pair is about to be examined in a pass that has already applied a swap
\* at an earlier pair.
C19_Witness ==
    /\ pc = "tsp_pair" /\ improved /\ swaps >= 1
    /\ <<ti, tk>> # <<0, 2>>
    /\ tour # tour_in

\* ------------------------------------------------------------ claim C20
\* C20: tsp_2opt terminates. It returns after the first full pass that
\* applied no swap, or as soon as swaps reaches max_swaps (the pass is left
\* at once and no other is begun), and swaps never exceeds max_swaps.
C20_TwoOptTerminates ==
    /\ <>(pc = "tsp_ret")
    /\ [](swaps <= max_swaps)
    /\ []((pc = "tsp_ret" /\ Len(tour) >= 4) => (~improved \/ swaps = max_swaps))
    /\ [][ /\ (pc = "tsp_pair" /\ swaps' = max_swaps) => pc' = "tsp_while"
           /\ (pc = "tsp_while" /\ (~improved \/ swaps = max_swaps)) => pc' = "tsp_ret"
         ]_vars

\* A return forced by the swap ceiling, in the middle of a pass.
C20_Witness ==
    /\ pc = "tsp_ret" /\ improved /\ swaps = max_swaps
    /\ PairsAfter(Len(tour), <<ti, tk>>) # {}



\* ------------------------------------- specification: vertex-cover track
\* The vertex-cover section of run_np_benchmarks on drawn graphs, with the
\* solver called for each k. The two loop tests read the clock, which is not
\* followed here: each test can come out either way. The sizes are the
\* track's vc_n = 22 on graphs with small covers, and smaller sizes on which
\* the solver is exhaustive: every graph on up to MaxVerts vertices, and
\* graphs on VcMaxK + 2 vertices and more whose covers reach or pass the cap.
\* Every pair u < v below c, in the order of the generator's two loops:
\* for u in range(n): for v in range(u + 1, n).
RECURSIVE complete_from(_, _)
complete_from(c, u) ==
    IF u >= c - 1 THEN <<>>
    ELSE [j \in 1 .. (c - 1 - u) |-> <<u, u + j>>] \o complete_from(c, u + 1)

CompleteEdges(c) == complete_from(c, 0)

\* generate_random_graph_edges(rng, n, 0.2): any set of pairs can be drawn.
VctGraphs(n) ==
    IF n <= MaxVerts THEN EdgeLists(n)
    ELSE { <<>>, << <<0, 1>> >>, << <<0, 1>>, <<2, 3>> >> }
            \cup (IF n <= VcMaxK + 3 THEN { CompleteEdges(n), CompleteEdges(n - 1) } ELSE {})

VctStartSizes == { MaxVerts - 1, VcMaxK + 2, VcStartN }

\* Mutant: range(0, min(vc_n, 10)), the cap itself is never tried.
vc_k_last_exclusive(n) == Min(n, VcMaxK) - 1

\* for k in range(0, min(vc_n, 10) + 1): the last k tried
vc_k_last(n) == Min(n, VcMaxK)

vctOthers == <<satVars, ksVars, tspVars, accVars, plmVars, pairVars, minutes, per_problem_max_seconds, now,
               start, budget, t_start, t_budget, local_left, global_left, best_sat,
               completed, seconds_total, generated, order, rngVars>>

InitVcTrack ==
    /\ pc = <<"vct", "test">>
    /\ vc_n \in VctStartSizes
    /\ vc_best = Some([n |-> 0, k |-> 0, found |-> FALSE])
    /\ edges = <<>> /\ vc_k = 0 /\ vc_sol = None
    /\ invoked = ("vertex_cover" :> 0)
    /\ problems = <<>>
    /\ minutes = 0 /\ per_problem_max_seconds = None /\ now = 0 /\ start = 0
    /\ budget = 0 /\ t_start = <<>> /\ t_budget = <<>> /\ local_left = 0 /\ global_left = 0
    /\ best_sat = None /\ completed = FALSE /\ seconds_total = 0
    /\ generated = <<>> /\ order = <<>> /\ seed = 0 /\ rng = None /\ calls = <<>>
    /\ SatIdle /\ KsIdle /\ TspIdle /\ AccIdle /\ PlmIdle /\ PairIdle

\* while _time_left(vc_start, vc_budget) > 0.25 and _time_left(start, budget) > 0.25
VctLoopTest ==
    /\ pc = <<"vct", "test">>
    /\ \E go \in { b \in BOOLEAN : b => invoked["vertex_cover"] < MaxAttempts } :
           pc' = IF go THEN <<"vct", "draw">> ELSE <<"vct", "end">>
    /\ UNCHANGED <<vcVars, vc_best, problems, invoked, vctOthers>>

\* edges = generate_random_graph_edges(rng, vc_n, vc_p); found = False;
\* found_k = None; the for loop starts at k = 0
VctDraw ==
    /\ pc = <<"vct", "draw">>
    /\ edges' \in VctGraphs(vc_n)
    /\ vc_k' = 0
    /\ vc_sol' = None
    /\ invoked' = Bump(invoked, "vertex_cover")
    /\ pc' = <<"vct", "solve">>
    /\ UNCHANGED <<vc_n, vc_best, problems, vctOthers>>

\* One iteration of for k in range(0, min(vc_n, 10) + 1): sol = solve_...;
\* if sol is not None: found = True; found_k = k; break
VctSolve ==
    /\ pc = <<"vct", "solve">>
    /\ vc_sol' = solve_vertex_cover_bruteforce(edges, vc_n, vc_k)
    /\ IF vc_sol' # None \/ vc_k >= vc_k_last(vc_n)
       THEN vc_k' = vc_k /\ pc' = <<"vct", "record">>
       ELSE vc_k' = vc_k + 1 /\ pc' = pc
    /\ UNCHANGED <<edges, vc_n, vc_best, problems, invoked, vctOthers>>

\* if found and found_k is not None: vc_best = {...}; vc_n += 1; else: break
VctRecord ==
    /\ pc = <<"vct", "record">>
    /\ IF vc_sol # None
       THEN /\ vc_best' = Some([n |-> vc_n, k |-> vc_k, found |-> TRUE, m |-> Len(edges)])
            /\ vc_n' = vc_n + 1
            /\ pc' = <<"vct", "test">>
       ELSE /\ UNCHANGED <<vc_best, vc_n>>
            /\ pc' = <<"vct", "end">>
    /\ UNCHANGED <<edges, vc_k, vc_sol, problems, invoked, vctOthers>>

\* results["problems"]["vertex_cover"] = {**vc_best, "seconds": ..., "note": ...}
VctEnd ==
    /\ pc = <<"vct", "end">>
    /\ problems' = problems @@ ("vertex_cover" :>
            IF vc_best[1].found
            THEN [n |-> vc_best[1].n, k |-> vc_best[1].k, found |-> TRUE,
                  m |-> vc_best[1].m, seconds |-> now - now]
            ELSE [n |-> vc_best[1].n, k |-> vc_best[1].k, found |-> FALSE,
                  seconds |-> now - now])
    /\ pc' = <<"vct", "done">>
    /\ UNCHANGED <<vcVars, vc_best, invoked, vctOthers>>

NextVcTrack == VctLoopTest \/ VctDraw \/ VctSolve \/ VctRecord \/ VctEnd

SpecVcTrack == InitVcTrack /\ [][NextVcTrack]_vars

\* ------------------------------------------------------------ claim C22
\* The size of a smallest vertex cover. A smallest cover holds no vertex
\* without an edge, so the sets of endpoints are all that need be looked at.
Endpoints(es) == UNION { { es[j][1], es[j][2] } : j \in 1 .. Len(es) }

CoverSizes(es) == { Cardinality(S) : S \in { T \in SUBSET Endpoints(es) : IsCover(es, T) } }

MinCoverSize(es) == CHOOSE c \in CoverSizes(es) : \A d \in CoverSizes(es) : c <= d

\* C22: in the vertex-cover track the k found for a drawn graph is the
\* first k in 0 .. min(n, 10) for which a cover of at most k vertices
\* exists, the size of a smallest cover whenever that is at most min(n, 10);
\* then (n, k, edge count) becomes the best and n grows by one. If the
\* smallest cover is larger than the cap the graph counts as not found, the
\* loop stops, and the entry reports the best recorded before (found =
\* false with n = 0 if there was none).
C22_FirstCoverSizeRecorded ==
    /\ [](pc = <<"vct", "record">> =>
            IF MinCoverSize(edges) <= Min(vc_n, VcMaxK)
            THEN vc_sol # None /\ vc_k = MinCoverSize(edges)
            ELSE vc_sol = None)
    /\ [][ /\ pc = <<"vct", "record">> =>
                IF vc_sol # None
                THEN /\ vc_best' = Some([n |-> vc_n, k |-> MinCoverSize(edges),
                                         found |-> TRUE, m |-> Len(edges)])
                     /\ vc_n' = vc_n + 1
                     /\ pc' = <<"vct", "test">>
                ELSE /\ vc_best' = vc_best
                     /\ vc_n' = vc_n
                     /\ pc' = <<"vct", "end">>
           /\ pc # <<"vct", "record">> => vc_best' = vc_best
           /\ pc = <<"vct", "end">> =>
                /\ problems'["vertex_cover"].found = vc_best[1].found
                /\ problems'["vertex_cover"].n = vc_best[1].n
                /\ problems'["vertex_cover"].k = vc_best[1].k
                /\ vc_best[1].found =>
                        problems'["vertex_cover"].m = vc_best[1].m
                /\ (~ vc_best[1].found) => problems'["vertex_cover"].n = 0
         ]_vars

\* The track ended on a graph whose smallest cover is above the cap, after
\* a graph whose smallest cover was exactly the cap had been recorded.
C22_Witness ==
    /\ pc = <<"vct", "done">>
    /\ vc_sol = None
    /\ MinCoverSize(edges) > Min(vc_n, VcMaxK)
    /\ problems["vertex_cover"].found
    /\ problems["vertex_cover"].k = VcMaxK
    /\ problems["vertex_cover"].n = vc_n - 1
\* ------------------------------------------------------------ claim C21
\* The call returned the tour that tsp_nearest_neighbor built on the CPU.
CpuReturned == AccelReturned /\ acc_meta \notin Backends

TourPrefix(t, p) == { t[q] : q \in 1 .. p }

IsPermutationOf(t, n) == Len(t) = n /\ TourPrefix(t, n) = 0 .. (n - 1)

\* The unvisited points that are nearest to the vertex at position p - 1.
NearestOpen(pts, t, p) ==
    LET last == t[p - 1]
        open == (0 .. (Len(pts) - 1)) \ TourPrefix(t, p - 1)
    IN  { j \in open : \A h \in open :
              dist(pts[last + 1], pts[j + 1]) <= dist(pts[last + 1], pts[h + 1]) }

\* C21: for n >= 1 points tsp_nearest_neighbor returns a permutation of
\* 0 .. n-1 that begins with the start vertex; every later vertex is a
\* nearest not-yet-visited point to its predecessor, and of the equally
\* near ones it is the one of lowest index, which fixes the tour.
C21_NearestNeighborLowestIndex ==
    CpuReturned =>
        LET t == acc_out[1]
            n == Len(points)
        IN  /\ IsPermutationOf(t, n)
            /\ t[1] = nn_start
            /\ \A p \in 2 .. n :
                   /\ t[p] \in NearestOpen(points, t, p)
                   /\ \A h \in NearestOpen(points, t, p) : t[p] <= h

\* A CPU tour over MaxPts points in which some choice was between equally
\* near points, and one in which the tour does not follow the index order.
C21_Witness ==
    /\ CpuReturned
    /\ Len(points) = MaxPts
    /\ nn_start # 0
    /\ \E p \in 2 .. Len(points) : Cardinality(NearestOpen(points, acc_out[1], p)) > 1
    /\ \E p \in 2 .. (Len(points) - 1) : acc_out[1][p] > acc_out[1][p + 1]

\* ------------------------------------------------------------ claim C23
\* What an iteration records when its solver has found a solution or not
\* (3-SAT), and when the smallest cover of the drawn graph is g.tau
\* (vertex cover); the position it leaves the loop body for.
SatOutcome(found) == Some(best_sat_update(best_sat[1], n_vars, 4 * n_vars, found))

SatAfter(found) == IF found THEN <<"3sat", "guard_local">> ELSE <<"3sat", "end">>

VcFound(g) == g.tau <= Min(vc_n, VcMaxK)

VcOutcome(g) ==
    IF VcFound(g) THEN Some([n |-> vc_n, k |-> g.tau, found |-> TRUE, m |-> g.m])
    ELSE vc_best

VcAfter(g) == IF VcFound(g) THEN <<"vertex_cover", "guard_local">> ELSE <<"vertex_cover", "end">>

\* A deadline of track t has passed at time tm.
DeadlinePassed(t, tm) ==
    \/ time_left(t_start[t], t_budget[t], tm) <= 0
    \/ time_left(start, budget, tm) <= 0

\* C23: the budget is polled between iterations only. An iteration that
\* has begun runs its solver to its end however much time passes during it:
\* every outcome of the solver is recorded for every duration, the record
\* does not depend on the clock, and a track is left only from a failing
\* loop test or from an iteration whose solver found nothing.
C23_BudgetPolledBetweenIterations ==
    /\ []((pc = <<"3sat", "body">> /\ best_sat[1].attempted < MaxAttempts) =>
            \A d \in Ticks : \A found \in BOOLEAN :
                ENABLED (/\ SatBody
                         /\ now' = now + d
                         /\ best_sat' = SatOutcome(found)
                         /\ pc' = SatAfter(found)))
    /\ []((pc = <<"vertex_cover", "body">> /\ invoked["vertex_cover"] < MaxAttempts) =>
            \A d \in Ticks : \A g \in VcDrawn :
                ENABLED (/\ VcBody
                         /\ now' = now + d
                         /\ vc_best' = VcOutcome(g)
                         /\ pc' = VcAfter(g)))
    /\ [][ /\ pc = <<"3sat", "body">> =>
                /\ invoked'["3sat"] = invoked["3sat"] + 1
                /\ \E found \in BOOLEAN :
                       best_sat' = SatOutcome(found) /\ pc' = SatAfter(found)
           /\ pc = <<"vertex_cover", "body">> =>
                /\ invoked'["vertex_cover"] = invoked["vertex_cover"] + 1
                /\ \E g \in VcDrawn : vc_best' = VcOutcome(g) /\ pc' = VcAfter(g)
           /\ \A t \in {"3sat", "vertex_cover"} :
                (pc' = <<t, "end">> /\ pc # pc') =>
                    \/ pc = <<t, "body">>
                    \/ pc = <<t, "guard_local">> /\ ~ guard_ok(local_left')
                    \/ pc = <<t, "guard_global">> /\ ~ guard_ok(global_left')
         ]_vars

\* A 3-SAT iteration has just recorded a solved instance although both
\* deadlines passed while it ran, and the loop goes on to its next test.
C23_Witness ==
    /\ pc = <<"3sat", "guard_local">>
    /\ best_sat[1].solved >= 1
    /\ best_sat[1].max_n = n_vars - 1
    /\ time_left(t_start["3sat"], t_budget["3sat"], now) <= 0
    /\ time_left(start, budget, now) <= 0

\* ----------------------------------------- specification: 3-SAT generation
\* generate_random_3sat one clause at a time, called on drawn arguments
\* ("call") and by the 3-SAT section of run_np_benchmarks ("track"), whose
\* loop tests can come out either way and whose solver finds a solution or
\* not. Of the list being built only its length and the clause appended
\* last are kept: no later step of the generator reads the earlier clauses.

\* Mutant: rng.choices, the three variables are drawn independently.
sample_with_replacement(n) == (0 .. (n - 1)) \X (0 .. (n - 1)) \X (0 .. (n - 1))

\* rng.sample(range(n_vars), k=3): three positions of the population, no
\* position taken twice, in any order.
sample_outcomes(n) ==
    { s \in (0 .. (n - 1)) \X (0 .. (n - 1)) \X (0 .. (n - 1)) :
        s[1] # s[2] /\ s[1] # s[3] /\ s[2] # s[3] }

\* The samples followed: all of them for up to MaxGenVars variables, and for
\* more variables those that fall on three given triples.
SamplesDrawn(n) ==
    IF n <= MaxGenVars THEN sample_outcomes(n)
    ELSE sample_outcomes(n) \cap { <<0, 1, 2>>, <<n - 1, 0, n - 2>>, <<n - 2, n - 1, n - 3>> }

genOthers ==
    <<cnf, max_nodes, sat_sol, toyVars, ksVars, vcVars, tspVars, accVars, plmVars, pairVars, minutes,
      per_problem_max_seconds, now, start, budget, t_start, t_budget, local_left,
      global_left, vc_best, problems, completed, seconds_total, generated, order, rngVars>>

InitSatGen ==
    /\ \/ /\ pc = <<"gen", "call", "loop">>
          /\ n_vars \in 0 .. MaxGenVars
          /\ gen_n_clauses \in 0 .. MaxClauses
       \/ /\ pc = <<"gen", "track", "test">>
          /\ n_vars = SatStartN
          /\ gen_n_clauses = 0
    /\ gen_count = 0 /\ gen_clause = None
    /\ best_sat = Some([max_n |-> 0, max_m |-> 0, solved |-> 0, attempted |-> 0])
    /\ invoked = ("3sat" :> 0)
    /\ cnf = <<>> /\ max_nodes = None /\ sat_sol = None /\ ToyIdle
    /\ minutes = 0 /\ per_problem_max_seconds = None /\ now = 0 /\ start = 0
    /\ budget = 0 /\ t_start = <<>> /\ t_budget = <<>> /\ local_left = 0 /\ global_left = 0
    /\ vc_best = None /\ problems = <<>> /\ completed = FALSE /\ seconds_total = 0
    /\ generated = <<>> /\ order = <<>> /\ seed = 0 /\ rng = None /\ calls = <<>>
    /\ KsIdle /\ VcIdle /\ TspIdle /\ AccIdle /\ PlmIdle /\ PairIdle

\* while ... : m = 4 * n; cnf = generate_random_3sat(rng, n_vars=n, n_clauses=m)
\* up to the generator's cnf = [], or the loop is left.
SatTrackTest ==
    /\ pc = <<"gen", "track", "test">>
    /\ \E go \in { b \in BOOLEAN : b => invoked["3sat"] < MaxAttempts } :
         IF go
         THEN /\ gen_n_clauses' = 4 * n_vars
              /\ gen_count' = 0
              /\ gen_clause' = None
              /\ invoked' = Bump(invoked, "3sat")
              /\ pc' = <<"gen", "track", "loop">>
         ELSE /\ UNCHANGED <<genVars, invoked>>
              /\ pc' = <<"gen", "track", "end">>
    /\ UNCHANGED <<n_vars, best_sat, genOthers>>

\* One iteration of for _ in range(n_clauses): vars_ = rng.sample(...), which
\* raises ValueError when the sample is larger than the population; three
\* rng.getrandbits(1); cnf.append(clause)
GenClause(caller) ==
    /\ pc = <<"gen", caller, "loop">>
    /\ gen_count < gen_n_clauses
    /\ IF 3 > n_vars
       THEN /\ pc' = <<"gen", caller, "raised">>
            /\ UNCHANGED <<gen_count, gen_clause>>
       ELSE /\ \E vars_ \in SamplesDrawn(n_vars) : \E neg \in BOOLEAN \X BOOLEAN \X BOOLEAN :
                gen_clause' = Some(<< <<vars_[1], neg[1]>>, <<vars_[2], neg[2]>>,
                                      <<vars_[3], neg[3]>> >>)
            /\ gen_count' = gen_count + 1
            /\ pc' = pc
    /\ UNCHANGED <<n_vars, gen_n_clauses, best_sat, invoked, genOthers>>

\* return cnf
GenReturn(caller) ==
    /\ pc = <<"gen", caller, "loop">>
    /\ gen_count = gen_n_clauses
    /\ pc' = <<"gen", caller, IF caller = "track" THEN "solve" ELSE "ret">>
    /\ UNCHANGED <<n_vars, genVars, best_sat, invoked, genOthers>>

\* best_sat["attempted"] += 1; sol = solve_3sat_bruteforce(...); found:
\* record and n += 1; else break
SatTrackSolve ==
    /\ pc = <<"gen", "track", "solve">>
    /\ \E found \in BOOLEAN :
         /\ best_sat' = Some(best_sat_update(best_sat[1], n_vars, 4 * n_vars, found))
         /\ IF found
            THEN n_vars' = n_vars + 1 /\ pc' = <<"gen", "track", "test">>
            ELSE n_vars' = n_vars /\ pc' = <<"gen", "track", "end">>
    /\ UNCHANGED <<genVars, invoked, genOthers>>

NextSatGen ==
    \/ SatTrackTest
    \/ \E caller \in {"call", "track"} : GenClause(caller)
    \/ \E caller \in {"call", "track"} : GenReturn(caller)
    \/ SatTrackSolve

SpecSatGen == InitSatGen /\ [][NextSatGen]_vars

\* ------------------------------------------------------------ claim C24
InGeneration == pc[1] = "gen" /\ pc[3] \in {"loop", "ret", "solve", "raised"}

\* C24: every clause that generate_random_3sat produces has exactly three
\* literals, their variable indices pairwise distinct and within
\* 0 .. n_vars-1; every iteration of the 3-SAT track generates with
\* n_vars >= 12 (>= 3), so the sampling of three distinct variables does not
\* fail there.
C24_ClauseVarsDistinct ==
    /\ (InGeneration /\ gen_clause # None) =>
          LET c == gen_clause[1]
          IN  /\ Len(c) = 3
              /\ \A i \in 1 .. 3 : c[i][1] \in 0 .. (n_vars - 1) /\ c[i][2] \in BOOLEAN
              /\ \A i \in 1 .. 3 : \A j \in 1 .. 3 : i # j => c[i][1] # c[j][1]
    /\ (InGeneration /\ pc[2] = "track") =>
          /\ n_vars >= SatStartN
          /\ n_vars >= 3
          /\ pc[3] # "raised"
    /\ (InGeneration /\ pc[3] = "raised") => n_vars < 3

\* The track's second instance has been generated in full, over 13
\* variables, and its last clause holds the highest variable.
C24_Witness ==
    /\ pc = <<"gen", "track", "solve">>
    /\ n_vars = SatStartN + 1
    /\ gen_count = 4 * n_vars
    /\ \E i \in 1 .. 3 : gen_clause[1][i][1] = n_vars - 1

\* ------------------------------------------------ specification: StatefulPLM
\* plm_formalized/stateful.py over the PLM transform of model.py. A Decimal
\* is held as an integer, a hex string as the sequence of its characters.
HexDigits == <<"0", "1", "2", "3", "4", "5", "6", "7", "8", "9", "a", "b", "c", "d", "e", "f">>

UpperHex == <<"A", "B", "C", "D", "E", "F">>

\* str.lower() on the characters drawn ("X" being the only other letter)
lower(ch) ==
    IF \E i \in 1 .. 6 : UpperHex[i] = ch
    THEN HexDigits[10 + (CHOOSE i \in 1 .. 6 : UpperHex[i] = ch)]
    ELSE IF ch = "X" THEN "x" ELSE ch

\* str.strip(): leading and trailing blanks are dropped
RECURSIVE strip(_)
strip(str) ==
    IF str # <<>> /\ str[1] = " " THEN strip(Tail(str))
    ELSE IF str # <<>> /\ str[Len(str)] = " " THEN strip(SubSeq(str, 1, Len(str) - 1))
    ELSE str

\* int(s, 16) on a string of hex digits
RECURSIVE int16(_)
int16(str) ==
    IF str = <<>> THEN 0
    ELSE 16 * int16(SubSeq(str, 1, Len(str) - 1))
            + ((CHOOSE i \in 1 .. 16 : HexDigits[i] = str[Len(str)]) - 1)

\* hex_to_int: Some(value), or None when binascii.unhexlify raises (a
\* character that is no hex digit, an odd number of digits) or int(s, 16)
\* does (no digit at all).
hex_to_int(hex_str) ==
    LET low == [i \in 1 .. Len(strip(hex_str)) |-> lower(strip(hex_str)[i])]
        str == IF Len(low) >= 2 /\ low[1] = "0" /\ low[2] = "x"
               THEN SubSeq(low, 3, Len(low)) ELSE low
    IN  IF \/ \E i \in 1 .. Len(str) : ~ \E d \in 1 .. 16 : HexDigits[d] = str[i]
           \/ Len(str) % 2 = 1
           \/ str = <<>>
        THEN None
        ELSE Some(int16(str))

\* PLMInputs.c(): Some(block_size + crc_decimal), or None for the ValueError
plm_c(inp) ==
    IF inp.block_size + inp.crc_decimal <= 0 THEN None
    ELSE Some(inp.block_size + inp.crc_decimal)

RECURSIVE Gcd(_, _)
Gcd(a, b) == IF b = 0 THEN Abs(a) ELSE Gcd(b, a % b)

\* numerator / denominator for a denominator other than 0: the quotient, as
\* a fraction in lowest terms with a positive denominator.
Quotient(num, den) ==
    LET g == Gcd(Abs(num), Abs(den))
        sgn == IF den < 0 THEN -1 ELSE 1
    IN  <<(sgn * num) \div g, (sgn * den) \div g>>

\* plm_secret_value: Some(S) with S = ((pi * Y) * (lam * X)) / (mu * C), or
\* None when it raises: mu == 0, an invalid hash, C <= 0.
plm_secret_value(inp) ==
    IF inp.mu = 0 THEN None
    ELSE IF hex_to_int(inp.public_hash_hex) = None THEN None
    ELSE IF plm_c(inp) = None THEN None
    ELSE Some(Quotient((inp.pi * hex_to_int(inp.public_hash_hex)[1]) * (inp.lam * inp.x),
                       inp.mu * plm_c(inp)[1]))

\* Mutant: the strategy leaves the time where it was.
update_x_linear_keeps_t(delta, st) ==
    [t |-> st.t, inputs |-> [st.inputs EXCEPT !.x = @ + delta]]

\* update_x_linear(delta)._fn
update_x_linear(delta, st) ==
    [t |-> st.t + 1, inputs |-> [st.inputs EXCEPT !.x = @ + delta]]

\* update_c_add_crc(delta_crc)._fn
update_c_add_crc(delta_crc, st) ==
    [t |-> st.t + 1, inputs |-> [st.inputs EXCEPT !.crc_decimal = @ + delta_crc]]

\* self._update_fn(self._state)
apply_update(u, st) ==
    IF u.kind = "x_linear" THEN update_x_linear(u.delta, st)
    ELSE update_c_add_crc(u.delta, st)

PlmInputsDrawn ==
    [pi : {3}, lam : {2}, mu : {0, 1}, x : {0, 1},
     public_hash_hex : { <<"0", "a">>, <<" ", "0", "X", "0", "A">>, <<"a">> },
     block_size : {1}, crc_decimal : {0, 1}]

PlmUpdatesDrawn ==
    [kind : {"x_linear"}, delta : {-1, 1, 2}] \cup [kind : {"c_add_crc"}, delta : {-1, 1}]

plmOthers == <<satVars, ksVars, vcVars, tspVars, accVars, pairVars, runVars>>

\* StatefulPLM(initial_state, update_fn, observer)
InitPlm ==
    /\ pc = <<"plm", "idle">>
    /\ plm_state \in [t : {0, 5}, inputs : PlmInputsDrawn]
    /\ plm_init = plm_state
    /\ plm_update \in PlmUpdatesDrawn
    /\ plm_observer \in BOOLEAN
    /\ plm_s = None /\ plm_observed = <<>> /\ plm_steps = 0
    /\ SatIdle /\ KsIdle /\ VcIdle /\ TspIdle /\ AccIdle /\ PairIdle /\ RunIdle

\* step() is called (again, whether the call before returned or raised):
\* self._state = self._update_fn(self._state)
PlmStepUpdate ==
    /\ pc \in { <<"plm", "idle">>, <<"plm", "returned">>, <<"plm", "raised">> }
    /\ plm_steps < MaxSteps
    /\ plm_steps' = plm_steps + 1
    /\ plm_state' = apply_update(plm_update, plm_state)
    /\ plm_s' = None
    /\ pc' = <<"plm", "value">>
    /\ UNCHANGED <<plm_update, plm_observer, plm_observed, plm_init, plmOthers>>

\* s = self.value(), which raises when plm_secret_value does
PlmStepValue ==
    /\ pc = <<"plm", "value">>
    /\ plm_s' = plm_secret_value(plm_state.inputs)
    /\ pc' = IF plm_s' = None THEN <<"plm", "raised">> ELSE <<"plm", "observe">>
    /\ UNCHANGED <<plm_state, plm_update, plm_observer, plm_observed, plm_init, plm_steps,
                   plmOthers>>

\* if self._observer is not None: self._observer(self._state, s); return s
PlmStepObserve ==
    /\ pc = <<"plm", "observe">>
    /\ plm_observed' = IF plm_observer THEN Append(plm_observed, <<plm_state, plm_s[1]>>)
                       ELSE plm_observed
    /\ pc' = <<"plm", "returned">>
    /\ UNCHANGED <<plm_state, plm_update, plm_observer, plm_s, plm_init, plm_steps, plmOthers>>

NextPlm == PlmStepUpdate \/ PlmStepValue \/ PlmStepObserve

SpecPlm == InitPlm /\ [][NextPlm]_vars

\* ------------------------------------------------------------ claim C25
PlmCallOver == pc \in { <<"plm", "returned">>, <<"plm", "raised">> }

\* With update_x_linear(d), k calls of step() leave t = t0 + k and
\* x = x0 + k * d and no other input changed.
XLinearAfterSteps ==
    plm_update.kind = "x_linear" =>
        /\ plm_state.t = plm_init.t + plm_steps
        /\ plm_state.inputs.x = plm_init.inputs.x + plm_steps * plm_update.delta
        /\ plm_state.inputs = [plm_init.inputs EXCEPT !.x = plm_state.inputs.x]

C26_TourStaysPermutation ==
    (pc \in {"tsp_while", "tsp_pair", "tsp_ret"}) =>
        /\ Len(tour) = Len(tour_in)
        /\ \A v \in 0 .. (Len(points) - 1) :
               Cardinality({ p \in 1 .. Len(tour) : tour[p] = v })
                   = Cardinality({ p \in 1 .. Len(tour_in) : tour_in[p] = v })
        /\ IsPermutationOf(tour, Len(points))
        /\ tour[1] = tour_in[1]
        /\ (pc = "tsp_ret" /\ Len(tour_in) < 4) => (tour = tour_in /\ swaps = 0)

\* tsp_2opt has returned after two swaps, one of which reversed a segment
\* that begins right after position 0.
C26_Witness ==
    /\ pc = "tsp_ret"
    /\ swaps >= 2
    /\ tour # tour_in
    /\ tour[2] # tour_in[2]

\* ------------------------------------------------------------ claim C27
\* The edges of a cyclic tour of n entries are e = (e, (e + 1) % n) for e in
\* 0 .. n-1; two of them are adjacent when they share a position.
NonAdjacentEdgePairs(n) ==
    { q \in (0 .. (n - 1)) \X (0 .. (n - 1)) :
        /\ q[1] < q[2]
        /\ q[2] # q[1] + 1
        /\ ~ (q[1] = 0 /\ q[2] = n - 1) }

\* C27: if tsp_2opt returns after fewer than max_swaps swaps on a tour of
\* at least 4 points, the returned tour is 2-opt locally optimal: for every
\* two non-adjacent tour edges (i, i+1) and (k, k+1), the closing edge
\* included, swapping them gains at most 1e-12.
C27_ReturnedTourLocallyOptimal ==
    (pc = "tsp_ret" /\ swaps < max_swaps /\ Len(tour) >= 4) =>
        \A q \in NonAdjacentEdgePairs(Len(tour)) : gain(points, tour, q[1], q[2]) <= GainEps

\* A returned tour that took a swap to become locally optimal, in which the
\* closing edge has a non-adjacent partner.
C27_Witness ==
    /\ pc = "tsp_ret"
    /\ swaps >= 1
    /\ swaps < max_swaps
    /\ Len(tour) >= 4
    /\ tour # tour_in
    /\ <<1, Len(tour) - 1>> \in NonAdjacentEdgePairs(Len(tour))
\* ------------------------------------------------------------ claim C28
\* The dp row after the first m items of the call (the loop of lines
\* 327-332 stopped after m rounds).
DpAfter(m) ==
    ks_fill(SubSeq(items, 1, m), capacity, 1, [c \in 0 .. capacity |-> 0], <<>>).dp

KsTables == ks_fill(items, capacity, 1, [c \in 0 .. capacity |-> 0], <<>>)

KsBestC == ks_best_c(KsTables.dp, capacity)

\* C28: in solve_knapsack_dp the value table is non-decreasing in the
\* capacity after every item; the reconstruction starts from the smallest
\* capacity attaining the maximum value; the picked items weigh exactly
\* that capacity, and the backward walk ends with remaining capacity 0.
C28_TableMonotoneWalkEndsAtZero ==
    KsReturned =>
        /\ \A m \in 0 .. Len(items) :
               LET dp == DpAfter(m)
               IN  \A c \in 0 .. (capacity - 1) : dp[c] <= dp[c + 1]
        /\ LET t == KsTables
               best_c == ks_best_c(t.dp, capacity)
               p == ks_out[1].picked
           IN  /\ \A d \in 0 .. capacity : t.dp[d] <= t.dp[best_c]
               /\ \A d \in 0 .. capacity : t.dp[d] = t.dp[best_c] => best_c <= d
               /\ ks_out[1].best = t.dp[best_c]
               /\ SumOver({ p[q] + 1 : q \in 1 .. Len(p) }, items, 1) = best_c
               /\ ks_walk_c(items, t.keep, Len(items), best_c) = 0

\* The maximum is attained below the capacity as well (the table is flat at
\* its end), the walk took two items and skipped one.
C28_Witness ==
    /\ pc = "ks_ret" /\ Len(items) = 3
    /\ KsBestC < capacity /\ KsBestC > 0
    /\ Len(ks_out[1].picked) = 2
    /\ \E m \in 1 .. 2 : \E c \in 0 .. (capacity - 1) : DpAfter(m)[c] < DpAfter(m)[c + 1]

\* ------------------------------------------------------------ claim C29
FailedName(b) == IF b = "cupy" THEN "cupy_failed" ELSE "torch_failed"

\* C29: in the meta returned by tsp_nearest_neighbor_accel, used_gpu is
\* true exactly when the returned tour was built by the CuPy or the Torch
\* block, and backend then names that block; when the tour was not built
\* by a backend, backend is "cpu" only if no try block was entered, and
\* otherwise it is "<name>_failed" for the last backend that raised, with
\* the text of that exception under error.
C29_MetaTellsWhoBuiltTheTour ==
    pc = <<"accel", "done">> =>
        /\ acc_used_gpu <=> acc_by \in Backends
        /\ acc_by \in Backends => acc_meta = acc_by
        /\ acc_by \notin Backends =>
              /\ acc_meta = "cpu" => acc_tried = <<>>
              /\ acc_tried = <<>> => acc_meta = "cpu" /\ acc_error = None
              /\ acc_tried # <<>> =>
                    /\ Len(acc_raised) = Len(acc_tried)
                    /\ LET last == acc_raised[Len(acc_raised)]
                       IN  /\ last[1] = acc_tried[Len(acc_tried)]
                           /\ acc_meta = FailedName(last[1])
                           /\ acc_error = Some(last[2])

\* Both blocks raised, each with its own text, and the CPU tour of a
\* full-size instance is returned under the second failure's name and text.
C29_Witness ==
    /\ pc = <<"accel", "done">> /\ acc_by = "cpu" /\ Len(points) = MaxPts
    /\ acc_raised = <<<<"cupy", exc_text("cupy")>>, <<"torch", exc_text("torch")>>>>
    /\ acc_raised[1][2] # acc_raised[2][2]
    /\ acc_meta = "torch_failed" /\ acc_error = Some(exc_text("torch"))

\* ------------------------- specification: the generator across two runs
\* run_np_benchmarks followed through its generator calls only, twice with
\* the same cfg. The loop tests are not followed through the clock: each may
\* pass or fail. The generator state is the seed and the number of 32-bit
\* outputs taken from the Mersenne Twister since: two generators of one seed
\* are in the same state exactly when they have given out as many outputs.
\* What depends on the content of the stream is tabulated from CPython's
\* random.Random for the seeds of DrawSeeds.
DrawSeeds == {DefaultSeed, 16, 76}

\* rng.sample(range(n_vars), k=3) draws below n, n - 1, n - 2 by rejection:
\* the outputs rejected while the 4n clauses of the n-variable instance of a
\* run are drawn (the 3-SAT track is the first to draw, so the instance and
\* its rejections depend on the seed and n alone).
SampleRejected ==
    (DefaultSeed :> <<63, 51, 34, 28, 70, 139>>)
        @@ (16 :> <<56, 53>>)
        @@ (76 :> <<67, 55, 34, 23, 78, 116>>)

sample_rejected(r, n) == SampleRejected[r.seed][n - SatStartN + 1]

\* generate_random_3sat: per clause three accepted outputs of rng.sample and
\* three rng.getrandbits(1), and the outputs rng.sample rejected.
words_3sat(r, n_clauses, n) == 6 * n_clauses + sample_rejected(r, n)
\* generate_random_points: rng.random() takes two outputs, twice per point
words_points(n) == 2 * (2 * n)
\* generate_random_graph_edges: one rng.random() per pair u < v
words_edges(n) == 2 * ((n * (n - 1)) \div 2)

\* solve_3sat_bruteforce(cnf, n, 1 << min(n, 22)) is not None on the
\* n-variable instance of a run: every instance of these seeds up to
\* n = 17 is satisfiable but the second one of seed 16.
SatUnsolved == {<<16, 13>>}
sat_solved(r, n) == <<r.seed, n>> \notin SatUnsolved

\* found: the graph drawn from state r on n vertices has a cover of at most
\* min(n, 10) vertices. Of the graphs these runs can draw, two have.
VcCovered == {<<DefaultSeed, 1151, 22>>, <<76, 355, 22>>}
vc_covered(r, n) == <<r.seed, r.pos, n>> \in VcCovered

drawsOthers ==
    <<cnf, max_nodes, sat_sol, toyVars, genVars, ksVars, edges, vc_k, vc_sol, tspVars,
      accVars, plmVars, minutes, per_problem_max_seconds, now, start, budget, t_start,
      t_budget, local_left, global_left, best_sat, vc_best, problems, completed,
      seconds_total, invoked, order>>

InitDraws ==
    /\ pc = <<"draws", "start">>
    /\ seed \in DrawSeeds
    /\ rng = None /\ calls = <<>>
    /\ generated = [t \in Tracks |-> 0]
    /\ n_vars = 0 /\ vc_n = 0
    /\ earlier_run = None
    /\ cnf = <<>> /\ max_nodes = None /\ sat_sol = None /\ ToyIdle /\ GenIdle
    /\ edges = <<>> /\ vc_k = 0 /\ vc_sol = None
    /\ minutes = 0 /\ per_problem_max_seconds = None /\ now = 0 /\ start = 0
    /\ budget = 0 /\ t_start = <<>> /\ t_budget = <<>> /\ local_left = 0 /\ global_left = 0
    /\ best_sat = None /\ vc_best = None /\ problems = <<>> /\ completed = FALSE
    /\ seconds_total = 0 /\ invoked = <<>> /\ order = <<>>
    /\ KsIdle /\ TspIdle /\ AccIdle /\ PlmIdle

\* rng = random.Random(cfg.seed); ...; n = 12
DrawsStart ==
    /\ pc = <<"draws", "start">>
    /\ rng' = Some(make_rng(seed))
    /\ n_vars' = SatStartN
    /\ pc' = <<"draws", "3sat">>
    /\ UNCHANGED <<seed, calls, generated, vc_n, earlier_run, drawsOthers>>

\* The 3-SAT loop test passes: cnf = generate_random_3sat(rng, n, 4 * n);
\* solved: n += 1; not solved: break.
DrawSat ==
    /\ pc = <<"draws", "3sat">>
    /\ generated["3sat"] < MaxSatDraws
    /\ calls' = Append(calls, generate(rng[1], "3sat", n_vars))
    /\ rng' = Some(rng_advance(rng[1], words_3sat(rng[1], 4 * n_vars, n_vars)))
    /\ generated' = Bump(generated, "3sat")
    /\ IF sat_solved(rng[1], n_vars)
       THEN n_vars' = n_vars + 1 /\ pc' = pc
       ELSE n_vars' = n_vars /\ pc' = <<"draws", "tsp">>
    /\ UNCHANGED <<seed, vc_n, earlier_run, drawsOthers>>

\* The 3-SAT loop test fails.
EndSat ==
    /\ pc = <<"draws", "3sat">>
    /\ pc' = <<"draws", "tsp">>
    /\ UNCHANGED <<rngVars, generated, n_vars, vc_n, earlier_run, drawsOthers>>

\* Mutant: the TSP track draws its points from a generator of its own.
DrawTspOwnGenerator ==
    /\ pc = <<"draws", "tsp">>
    /\ calls' = Append(calls, generate(rng[1], "tsp", TspN))
    /\ generated' = Bump(generated, "tsp")
    /\ vc_n' = VcStartN
    /\ pc' = <<"draws", "vertex_cover">>
    /\ UNCHANGED <<seed, rng, n_vars, earlier_run, drawsOthers>>

\* The TSP loop test passes: pts = generate_random_points(rng, tsp_n); ...;
\* break; then vc_n = 22.
DrawTsp ==
    /\ pc = <<"draws", "tsp">>
    /\ calls' = Append(calls, generate(rng[1], "tsp", TspN))
    /\ rng' = Some(rng_advance(rng[1], words_points(TspN)))
    /\ generated' = Bump(generated, "tsp")
    /\ vc_n' = VcStartN
    /\ pc' = <<"draws", "vertex_cover">>
    /\ UNCHANGED <<seed, n_vars, earlier_run, drawsOthers>>

\* The TSP loop test fails; then vc_n = 22.
SkipTsp ==
    /\ pc = <<"draws", "tsp">>
    /\ vc_n' = VcStartN
    /\ pc' = <<"draws", "vertex_cover">>
    /\ UNCHANGED <<rngVars, generated, n_vars, earlier_run, drawsOthers>>

\* The vertex-cover loop test passes: edges = generate_random_graph_edges(
\* rng, vc_n, vc_p); found: vc_n += 1; not found: break.
DrawVc ==
    /\ pc = <<"draws", "vertex_cover">>
    /\ calls' = Append(calls, generate(rng[1], "vertex_cover", vc_n))
    /\ rng' = Some(rng_advance(rng[1], words_edges(vc_n)))
    /\ generated' = Bump(generated, "vertex_cover")
    /\ IF vc_covered(rng[1], vc_n)
       THEN vc_n' = vc_n + 1 /\ pc' = pc
       ELSE vc_n' = vc_n /\ pc' = <<"draws", "knapsack">>
    /\ UNCHANGED <<seed, n_vars, earlier_run, drawsOthers>>

\* The vertex-cover loop test fails.
EndVc ==
    /\ pc = <<"draws", "vertex_cover">>
    /\ pc' = <<"draws", "knapsack">>
    /\ UNCHANGED <<rngVars, generated, n_vars, vc_n, earlier_run, drawsOthers>>

\* items = generate_random_knapsack(rng, ks_n, max_w=50, max_v=100); ...;
\* return results. rng is not read after this call.
DrawKs ==
    /\ pc = <<"draws", "knapsack">>
    /\ calls' = Append(calls, generate(rng[1], "knapsack", KsN))
    /\ generated' = Bump(generated, "knapsack")
    /\ rng' = None
    /\ pc' = <<"draws", "done">>
    /\ UNCHANGED <<seed, n_vars, vc_n, earlier_run, drawsOthers>>

\* run_np_benchmarks is called again with the same cfg.
RunAgain ==
    /\ pc = <<"draws", "done">>
    /\ earlier_run = None
    /\ earlier_run' = Some([generated |-> generated, calls |-> calls])
    /\ calls' = <<>>
    /\ generated' = [t \in Tracks |-> 0]
    /\ n_vars' = 0 /\ vc_n' = 0
    /\ pc' = <<"draws", "start">>
    /\ UNCHANGED <<seed, rng, drawsOthers>>

NextDraws ==
    \/ DrawsStart
    \/ DrawSat
    \/ EndSat
    \/ DrawTsp
    \/ SkipTsp
    \/ DrawVc
    \/ EndVc
    \/ DrawKs
    \/ RunAgain

SpecDraws == InitDraws /\ [][NextDraws]_vars

\* ------------------------------------------------------------ claim C30
\* The iterations of the three earlier tracks that drew an instance.
IterationsOf(g) == <<g["3sat"], g["tsp"], g["vertex_cover"]>>

KnapsackCall(cs) == cs[Len(cs)]

\* The generator outputs a recorded call consumed.
WordsOf(c) ==
    CASE c.kind = "3sat" -> words_3sat(c.from, 4 * c.size, c.size)
      [] c.kind = "tsp" -> words_points(c.size)
      [] c.kind = "vertex_cover" -> words_edges(c.size)

RECURSIVE WordsBefore(_, _)
WordsBefore(cs, i) == IF i <= 1 THEN 0 ELSE WordsOf(cs[i - 1]) + WordsBefore(cs, i - 1)

WordsBeforeKnapsack(cs) == WordsBefore(cs, Len(cs))

TwoRunsDone == pc = <<"draws", "done">> /\ earlier_run # None

\* C30 as stated: two runs with the same BenchConfig whose 3-SAT, TSP or
\* vertex-cover loops ran a different number of iterations draw the
\* knapsack instance from different generator positions.
C30_DifferentIterationsDifferentPositions ==
    TwoRunsDone =>
        (IterationsOf(generated) # IterationsOf(earlier_run[1].generated)
            => KnapsackCall(calls).from # KnapsackCall(earlier_run[1].calls).from)

\* C30 amended: the knapsack instance of a run is drawn from the generator
\* of the seed advanced by the outputs the iterations of the three earlier
\* tracks consumed. Two runs with the same BenchConfig draw it from the
\* same position, and so draw the same instance, exactly when those totals
\* are equal, whatever the numbers of iterations were.
C30_KnapsackPositionIsDrawTotal ==
    /\ pc = <<"draws", "done">> =>
          /\ KnapsackCall(calls).kind = "knapsack"
          /\ KnapsackCall(calls).from =
                [seed |-> seed, pos |-> WordsBeforeKnapsack(calls)]
    /\ TwoRunsDone =>
          LET a == earlier_run[1].calls
          IN  /\ (KnapsackCall(calls).from = KnapsackCall(a).from)
                    <=> (WordsBeforeKnapsack(calls) = WordsBeforeKnapsack(a))
              /\ (KnapsackCall(calls) = KnapsackCall(a))
                    <=> (WordsBeforeKnapsack(calls) = WordsBeforeKnapsack(a))

\* Seed 76: a run of 4 3-SAT, 1 TSP and 1 vertex-cover iterations and a run
\* of 5, 1 and 0 iterations reach the knapsack draw at the same position.
C30_Witness ==
    /\ TwoRunsDone /\ seed = 76
    /\ IterationsOf(earlier_run[1].generated) = <<4, 1, 1>>
    /\ IterationsOf(generated) = <<5, 1, 0>>
    /\ KnapsackCall(calls) = KnapsackCall(earlier_run[1].calls)
    /\ WordsBeforeKnapsack(calls) = WordsBeforeKnapsack(earlier_run[1].calls)

====
